---- MODULE Spec2Model ----
(***************************************************************************)
(* The economy engine of the idle game framework: Resource, Multiplier,    *)
(* Generator, Upgrade, Achievement and the GameEngine that owns them       *)
(* (tick loop, save / load with offline progress, reset).                  *)
(*                                                                         *)
(* Numbers.  Amounts are held in fixed point: one whole resource is Unit   *)
(* sub-units, Unit = 2^MaxDebt, so that the price baseAmount *             *)
(* scalingFactor^k of a generator with scaling factor 2 is exact for every *)
(* owned count k >= -MaxDebt the model explores (a purchase with a         *)
(* negative quantity lowers the owned count below zero).  Time is in       *)
(* milliseconds, the clock moving in whole seconds.                        *)
(*                                                                         *)
(* An optional configuration value (maxAmount, maxPurchases) is a set:     *)
(* {} when it is not given, {n} when it is.  null is {}.                   *)
(*                                                                         *)
(* The StatisticsTracker's totals feed back into no decision of the        *)
(* engine; they are not part of the engine's state below.  What the engine *)
(* deposits and records as earned is followed by a probe, which a          *)
(* specification attaches in its initial state or leaves off (Null).       *)
(***************************************************************************)
EXTENDS Integers, Sequences, FiniteSets, TLC

(***************************************************************************)
(* Bounds of the exploration.                                              *)
(***************************************************************************)
\* the lowest owned count explored is -MaxDebt
MaxDebt == 1
\* no resource amount above MaxWhole whole resources is explored
MaxWhole == 4
\* the clock stops at MaxNow seconds
MaxNow == 1
\* callback invocation counters saturate at MaxCalls
MaxCalls == 2
\* at most MaxAttached multipliers are attached to one generator
MaxAttached == 2
\* where ticks are timed, the clock stops at MaxRun seconds
MaxRun == 4
\* where a game is left and loaded again, the clock stops at MaxDays days
MaxDays == 2
\* where the statistics are kept, the store is asked at most MaxRecorded times
\* for each upgrade and clicked at most MaxRecorded times
MaxRecorded == 2

\* b^e for e >= 0, by halving the exponent
RECURSIVE Pow(_, _)
Pow(b, e) ==
  IF e <= 0
    THEN 1
    ELSE LET half == Pow(b, e \div 2)
         IN  IF e % 2 = 0 THEN half * half ELSE b * half * half

Unit == Pow(2, MaxDebt)
MaxUnits == MaxWhole * Unit

Null == {}
\* x || null, for an optional number x
OrNull(opt) == {x \in opt : x # 0}

Min(a, b) == IF a <= b THEN a ELSE b

(***************************************************************************)
(* The game definition: two registered resources, four generators, three   *)
(* upgrades, one multiplier, two achievements.  "gems" and "void" are      *)
(* resource ids that are never registered with the engine.                 *)
(***************************************************************************)
Resources == {"gold", "wheat"}
Generators == {"farmer", "mill", "ghost", "baker"}
Upgrades == {"tools", "land", "relic"}
Achievements == {"firstWheat", "firstFarmer"}
\* enumeration order of the engine's Maps (insertion order)
GeneratorOrder == <<"farmer", "mill", "ghost", "baker">>
UpgradeOrder == <<"tools", "land", "relic">>
AchievementOrder == <<"firstWheat", "firstFarmer">>

WheatMax == 3

ResourceConfig(r) ==
  CASE r = "gold"  -> [initialAmount |-> {2 * Unit}, maxAmount |-> {}]
    [] r = "wheat" -> [initialAmount |-> {0}, maxAmount |-> {WheatMax * Unit}]

GeneratorConfig(g) ==
  CASE g = "farmer" ->
         [producesResourceId |-> "wheat", baseProductionRate |-> Unit,
          costs |-> <<[resourceId |-> "gold", baseAmount |-> Unit, scalingFactor |-> 2]>>,
          maxPurchases |-> {2}]
    [] g = "mill" ->
         [producesResourceId |-> "gold", baseProductionRate |-> Unit,
          costs |-> <<[resourceId |-> "wheat", baseAmount |-> 2 * Unit, scalingFactor |-> 1],
                      [resourceId |-> "gold", baseAmount |-> Unit, scalingFactor |-> 1]>>,
          maxPurchases |-> {0}]
    [] g = "ghost" ->
         [producesResourceId |-> "void", baseProductionRate |-> Unit,
          costs |-> <<[resourceId |-> "gems", baseAmount |-> Unit, scalingFactor |-> 1]>>,
          maxPurchases |-> {}]
    [] g = "baker" ->
         [producesResourceId |-> "wheat", baseProductionRate |-> 2 * Unit,
          costs |-> <<[resourceId |-> "gold", baseAmount |-> Unit, scalingFactor |-> 1]>>,
          maxPurchases |-> {}]

UpgradeConfig(u) ==
  CASE u = "tools" ->
         [costs |-> <<[resourceId |-> "gold", amount |-> Unit]>>, maxPurchases |-> {}]
    [] u = "land" ->
         [costs |-> <<[resourceId |-> "wheat", amount |-> Unit],
                      [resourceId |-> "wheat", amount |-> Unit]>>,
          maxPurchases |-> {2}]
    [] u = "relic" ->
         [costs |-> <<[resourceId |-> "gems", amount |-> Unit]>>, maxPurchases |-> {}]

Multipliers == {"betterTools", "bonus", "paused"}

\* "paused" is a multiplier whose active field has been set to false
MultiplierConfig(m) ==
  CASE m = "betterTools" -> [type |-> "multiplicative", value |-> 2, active |-> TRUE]
    [] m = "bonus"       -> [type |-> "additive", value |-> Unit, active |-> TRUE]
    [] m = "paused"      -> [type |-> "multiplicative", value |-> 3, active |-> FALSE]

VARIABLES
  amount,                \* Resource.amount of each registered resource
  purchased,             \* Generator.purchased
  productionMultipliers, \* Generator.productionMultipliers (multiplier ids, in order)
  upgradePurchased,      \* Upgrade.purchased
  unlocked,              \* Achievement.unlocked
  rewardCalls,           \* how often each achievement's reward callback has run
  storage,               \* localStorage['idleGameSave']: {} or {record}
  now,                   \* Date.now()
  lastTick,              \* GameEngine.lastTick
  lastSave,              \* GameEngine.lastSave
  tickInterval,          \* GameEngine.tickInterval: Null or {handle}
  timers,                \* the handles window.setInterval has registered and
                         \* clearInterval has not cleared
  probe,                 \* Null, or {what has been observed of the engine}
  statistics,            \* {GameEngine.statistics' stats}, or Null where a
                         \* specification leaves the statistics out
  last                   \* the last call made and what it returned

vars == <<amount, purchased, productionMultipliers, upgradePurchased, unlocked,
          rewardCalls, storage, now, lastTick, lastSave,
          tickInterval, timers, probe, statistics, last>>

(***************************************************************************)
(* Resource                                                                *)
(***************************************************************************)
\* Resource.constructor: this.maxAmount = config.maxAmount || null
ResourceMaxAmount(r) == OrNull(ResourceConfig(r).maxAmount)

\* Resource.constructor: this.amount = config.initialAmount || 0
ResourceInitialAmounts(r) == ResourceConfig(r).initialAmount

\* an add that leaves the amount alone where the sum would pass the maximum
ResourceAddOrRefuse(a, max, value) ==
  LET sum == a + value
  IN  IF max # Null /\ \E m \in max : sum > m THEN a ELSE sum

\* Resource.add on a resource holding a with maximum max (Null or {m})
ResourceAdd(a, max, value) ==
  LET sum == a + value
  IN  IF max # Null /\ \E m \in max : sum > m
        THEN CHOOSE m \in max : TRUE
        ELSE sum

\* Resource.canAfford
ResourceCanAfford(a, value) == a >= value

\* Resource.subtract with the comparison a > value: spending the whole balance fails
ResourceSubtractStrict(a, value) ==
  IF a > value
    THEN [amount |-> a - value, ok |-> TRUE]
    ELSE [amount |-> a, ok |-> FALSE]

\* a subtract that takes the value whether or not the amount covers it
ResourceSubtractUnchecked(a, value) == [amount |-> a - value, ok |-> TRUE]

\* Resource.subtract: the new amount and the value returned
ResourceSubtract(a, value) ==
  IF a >= value
    THEN [amount |-> a - value, ok |-> TRUE]
    ELSE [amount |-> a, ok |-> FALSE]

\* Resource.fromJSON
ResourceFromJSON(data) == data.amount

(***************************************************************************)
(* Multiplier                                                              *)
(***************************************************************************)
\* Multiplier.apply
MultiplierApply(m, baseValue) ==
  IF ~MultiplierConfig(m).active
    THEN baseValue
    ELSE IF MultiplierConfig(m).type = "additive"
           THEN baseValue + MultiplierConfig(m).value
           ELSE baseValue * MultiplierConfig(m).value

(***************************************************************************)
(* Generator                                                               *)
(***************************************************************************)
\* Generator.constructor: this.maxPurchases = config.maxPurchases || null
GeneratorMaxPurchases(g) == OrNull(GeneratorConfig(g).maxPurchases)

\* cost.baseAmount * Math.pow(cost.scalingFactor, purchaseCount)
CostAt(cost, purchaseCount) ==
  IF purchaseCount >= 0
    THEN cost.baseAmount * Pow(cost.scalingFactor, purchaseCount)
    ELSE cost.baseAmount \div Pow(cost.scalingFactor, -purchaseCount)

\* the keys of the Map that getCurrentCostsForPurchase builds
CostKeys(g) ==
  {GeneratorConfig(g).costs[i].resourceId : i \in DOMAIN GeneratorConfig(g).costs}

\* Generator.getCurrentCostsForPurchase: costs.set(resourceId, amount) in list
\* order, so the last schedule of a resource is the one the Map keeps
GetCurrentCostsForPurchase(g, purchaseCount) ==
  LET costs == GeneratorConfig(g).costs
      lastOf(r) == CHOOSE i \in DOMAIN costs :
                     /\ costs[i].resourceId = r
                     /\ \A j \in DOMAIN costs : costs[j].resourceId = r => j <= i
  IN  [r \in CostKeys(g) |-> CostAt(costs[lastOf(r)], purchaseCount)]

\* the totalCost Map after the iterations i .. quantity - 1 of the loop
\* for (i = 0; i < quantity; i++) with owned count owned; the iterations add
\* up entry by entry, and the sum is taken by halves
RECURSIVE TotalCostFrom(_, _, _, _)
TotalCostFrom(g, owned, i, quantity) ==
  IF i >= quantity
    THEN [r \in {} |-> 0]
    ELSE IF i + 1 = quantity
           THEN GetCurrentCostsForPurchase(g, owned + i)
           ELSE LET mid == (i + quantity) \div 2
                    lower == TotalCostFrom(g, owned, i, mid)
                    upper == TotalCostFrom(g, owned, mid, quantity)
                IN  [r \in DOMAIN lower |-> lower[r] + upper[r]]

\* the total cost taken as quantity times the current single-unit price
TotalCostFlat(g, owned, quantity) ==
  IF quantity <= 0
    THEN [r \in {} |-> 0]
    ELSE [r \in CostKeys(g) |-> quantity * GetCurrentCostsForPurchase(g, owned)[r]]

TotalCost(g, owned, quantity) == TotalCostFrom(g, owned, 0, quantity)

\* Generator.canPurchase, against the registered resources' amounts am
GeneratorCanPurchase(g, owned, am, quantity) ==
  LET max == GeneratorMaxPurchases(g)
      totalCost == TotalCost(g, owned, quantity)
  IN  /\ ~(max # Null /\ \E m \in max : owned + quantity > m)
      /\ \A r \in DOMAIN totalCost :
           r \in DOMAIN am /\ ResourceCanAfford(am[r], totalCost[r])

\* the amounts after Generator.purchase has deducted the total cost
GeneratorDeduct(g, owned, am, quantity) ==
  LET totalCost == TotalCost(g, owned, quantity)
  IN  [r \in DOMAIN am |->
         IF r \in DOMAIN totalCost
           THEN ResourceSubtract(am[r], totalCost[r]).amount
           ELSE am[r]]

\* Generator.purchase deducting before it knows that every cost is covered
GeneratorPurchasePartial(g, owned, am, quantity) ==
  IF ~GeneratorCanPurchase(g, owned, am, quantity)
    THEN [amount |-> GeneratorDeduct(g, owned, am, quantity), purchased |-> owned,
          ok |-> FALSE]
    ELSE [amount |-> GeneratorDeduct(g, owned, am, quantity),
          purchased |-> owned + quantity, ok |-> TRUE]

\* Generator.purchase: the new amounts, the new owned count, the value returned
GeneratorPurchase(g, owned, am, quantity) ==
  IF ~GeneratorCanPurchase(g, owned, am, quantity)
    THEN [amount |-> am, purchased |-> owned, ok |-> FALSE]
    ELSE [amount |-> GeneratorDeduct(g, owned, am, quantity),
          purchased |-> owned + quantity, ok |-> TRUE]

\* getMaxAffordable: the ceiling of the search for a generator without a maximum
SentinelCeiling == 1000

\* the binary search with the loop test left < right
RECURSIVE MaxAffordableSearchStrict(_, _, _, _, _, _)
MaxAffordableSearchStrict(g, owned, am, left, right, result) ==
  IF ~(left < right)
    THEN result
    ELSE LET mid == (left + right) \div 2
         IN  IF GeneratorCanPurchase(g, owned, am, mid)
               THEN MaxAffordableSearchStrict(g, owned, am, mid + 1, right, mid)
               ELSE MaxAffordableSearchStrict(g, owned, am, left, mid - 1, result)

\* the loop while (left <= right) of Generator.getMaxAffordable
RECURSIVE MaxAffordableSearch(_, _, _, _, _, _)
MaxAffordableSearch(g, owned, am, left, right, result) ==
  IF ~(left <= right)
    THEN result
    ELSE LET mid == (left + right) \div 2
         IN  IF GeneratorCanPurchase(g, owned, am, mid)
               THEN MaxAffordableSearch(g, owned, am, mid + 1, right, mid)
               ELSE MaxAffordableSearch(g, owned, am, left, mid - 1, result)

\* Generator.getMaxAffordable
GetMaxAffordable(g, owned, am) ==
  LET max == GeneratorMaxPurchases(g)
      maxCheck == IF max # Null
                    THEN (CHOOSE m \in max : TRUE) - owned
                    ELSE SentinelCeiling
  IN  MaxAffordableSearch(g, owned, am, 0, maxCheck, 0)

\* the multipliers applied from the last attached to the first
RECURSIVE ApplyMultipliersBackwards(_, _, _)
ApplyMultipliersBackwards(ms, i, production) ==
  IF i > Len(ms)
    THEN production
    ELSE LET rest == ApplyMultipliersBackwards(ms, i + 1, production)
         IN  IF MultiplierConfig(ms[i]).active
               THEN MultiplierApply(ms[i], rest)
               ELSE rest

\* Generator.getCurrentProduction, folding the attached multipliers from index i
RECURSIVE ApplyMultipliers(_, _, _)
ApplyMultipliers(ms, i, production) ==
  IF i > Len(ms)
    THEN production
    ELSE ApplyMultipliers(ms, i + 1,
           IF MultiplierConfig(ms[i]).active
             THEN MultiplierApply(ms[i], production)
             ELSE production)

GetCurrentProduction(g, owned, ms) ==
  ApplyMultipliers(ms, 1, GeneratorConfig(g).baseProductionRate * owned)

\* Generator.fromJSON
GeneratorFromJSON(data) == data.purchased

(***************************************************************************)
(* Upgrade                                                                 *)
(***************************************************************************)
\* Upgrade.constructor: this.maxPurchases = config.maxPurchases ?? 1
UpgradeMaxPurchases(u) ==
  IF UpgradeConfig(u).maxPurchases = {}
    THEN 1
    ELSE CHOOSE m \in UpgradeConfig(u).maxPurchases : TRUE

\* Upgrade.canPurchase with the limit test purchased > maxPurchases
UpgradeCanPurchaseOffByOne(u, count, am) ==
  LET costs == UpgradeConfig(u).costs
  IN  /\ ~(count > UpgradeMaxPurchases(u))
      /\ \A i \in DOMAIN costs :
           /\ costs[i].resourceId \in DOMAIN am
           /\ ResourceCanAfford(am[costs[i].resourceId], costs[i].amount)

\* Upgrade.canPurchase: every listed cost is checked on its own
UpgradeCanPurchase(u, count, am) ==
  LET costs == UpgradeConfig(u).costs
  IN  /\ ~(count >= UpgradeMaxPurchases(u))
      /\ \A i \in DOMAIN costs :
           /\ costs[i].resourceId \in DOMAIN am
           /\ ResourceCanAfford(am[costs[i].resourceId], costs[i].amount)

\* the loop of Upgrade.purchase over this.costs, from entry i on:
\* resource?.subtract(cost.amount), its result ignored
RECURSIVE UpgradeDeductFrom(_, _, _)
UpgradeDeductFrom(costs, i, am) ==
  IF i > Len(costs)
    THEN am
    ELSE LET r == costs[i].resourceId
         IN  UpgradeDeductFrom(costs, i + 1,
               IF r \in DOMAIN am
                 THEN [am EXCEPT ![r] = ResourceSubtract(am[r], costs[i].amount).amount]
                 ELSE am)

\* the effect callbacks of the game definition, on the generators' multiplier lists
UpgradeEffect(u, pms) ==
  CASE u = "tools" -> [pms EXCEPT !["farmer"] = Append(@, "betterTools")]
    [] u = "land"  -> pms
    [] u = "relic" -> pms

\* one call of upgrade.effect() in a replay: st holds the multiplier lists
\* and the number of effect() calls made so far for each upgrade
CallEffect(u, st) ==
  [pms |-> UpgradeEffect(u, st.pms), calls |-> [st.calls EXCEPT ![u] = @ + 1]]

\* for (let i = 0; i < upgrade.purchased; i++) upgrade.effect()
RECURSIVE ReplayEffect(_, _, _)
ReplayEffect(u, n, st) ==
  IF n <= 0 THEN st ELSE ReplayEffect(u, n - 1, CallEffect(u, st))

\* Upgrade.purchase deducting the costs before it tests canPurchase
UpgradePurchaseDeductFirst(u, count, am, pms) ==
  IF ~UpgradeCanPurchase(u, count, am)
    THEN [amount |-> UpgradeDeductFrom(UpgradeConfig(u).costs, 1, am),
          purchased |-> count, multipliers |-> pms, effects |-> 0,
          success |-> FALSE, costs |-> <<>>]
    ELSE [amount |-> UpgradeDeductFrom(UpgradeConfig(u).costs, 1, am),
          purchased |-> count + 1,
          multipliers |-> UpgradeEffect(u, pms), effects |-> 1,
          success |-> TRUE, costs |-> UpgradeConfig(u).costs]

\* Upgrade.purchase: the new amounts, count and multiplier lists, the number of
\* effect() calls made, and the value returned ({success, costs})
UpgradePurchase(u, count, am, pms) ==
  IF ~UpgradeCanPurchase(u, count, am)
    THEN [amount |-> am, purchased |-> count, multipliers |-> pms, effects |-> 0,
          success |-> FALSE, costs |-> <<>>]
    ELSE [amount |-> UpgradeDeductFrom(UpgradeConfig(u).costs, 1, am),
          purchased |-> count + 1,
          multipliers |-> UpgradeEffect(u, pms), effects |-> 1,
          success |-> TRUE, costs |-> UpgradeConfig(u).costs]

\* Upgrade.fromJSON
UpgradeFromJSON(data) == data.purchased

(***************************************************************************)
(* Achievement                                                             *)
(***************************************************************************)
\* the condition callbacks of the game definition
Condition(a, am, owned) ==
  CASE a = "firstWheat"  -> am["wheat"] >= Unit
    [] a = "firstFarmer" -> owned["farmer"] >= 1

\* Achievement.check without the early return for an unlocked achievement
AchievementCheckAgain(isUnlocked, condition) ==
  IF condition
    THEN [unlocked |-> TRUE, rewarded |-> TRUE, ret |-> TRUE]
    ELSE [unlocked |-> isUnlocked, rewarded |-> FALSE, ret |-> FALSE]

\* Achievement.check storing the condition's value in the flag
AchievementCheckRelock(isUnlocked, condition) ==
  [unlocked |-> condition, rewarded |-> ~isUnlocked /\ condition,
   ret |-> ~isUnlocked /\ condition]

\* Achievement.check: the new flag, whether reward() ran, the value returned
AchievementCheck(isUnlocked, condition) ==
  IF isUnlocked
    THEN [unlocked |-> TRUE, rewarded |-> FALSE, ret |-> FALSE]
    ELSE IF condition
           THEN [unlocked |-> TRUE, rewarded |-> TRUE, ret |-> TRUE]
           ELSE [unlocked |-> FALSE, rewarded |-> FALSE, ret |-> FALSE]

\* Achievement.fromJSON
AchievementFromJSON(data) == data.unlocked

(***************************************************************************)
(* StatisticsTracker.  The totals per id are functions over the ids the    *)
(* game defines (an id without an entry reads as 0: get(id) || 0);         *)
(* timePlayed is held in milliseconds where the code holds seconds.        *)
(***************************************************************************)
\* StatisticsTracker.constructor and StatisticsTracker.reset at time t
FreshStatistics(t) ==
  [totalResourcesEarned |-> [r \in Resources |-> 0],
   totalResourcesSpent |-> [r \in Resources |-> 0],
   totalGeneratorsPurchased |-> [g \in Generators |-> 0],
   totalUpgradesPurchased |-> [u \in Upgrades |-> 0],
   achievementsUnlocked |-> 0,
   totalClicks |-> 0,
   timePlayed |-> 0,
   sessionStartTime |-> t]

RecordResourceEarned(stats, resourceId, value) ==
  [stats EXCEPT !.totalResourcesEarned[resourceId] = @ + value]

RecordResourceSpent(stats, resourceId, value) ==
  [stats EXCEPT !.totalResourcesSpent[resourceId] = @ + value]

RecordGeneratorPurchase(stats, generatorId, quantity) ==
  [stats EXCEPT !.totalGeneratorsPurchased[generatorId] = @ + quantity]

RecordUpgradePurchase(stats, upgradeId) ==
  [stats EXCEPT !.totalUpgradesPurchased[upgradeId] = @ + 1]

RecordAchievementUnlocked(stats) ==
  [stats EXCEPT !.achievementsUnlocked = @ + 1]

RecordClick(stats) ==
  [stats EXCEPT !.totalClicks = @ + 1]

\* updateTimePlayed that leaves sessionStartTime where it was
UpdateTimePlayedKeepsStart(stats, t) ==
  [stats EXCEPT !.timePlayed = @ + (t - stats.sessionStartTime)]

\* StatisticsTracker.updateTimePlayed at time t
UpdateTimePlayed(stats, t) ==
  [stats EXCEPT !.timePlayed = @ + (t - stats.sessionStartTime),
                !.sessionStartTime = t]

\* fromJSON leaving the count of unlocked achievements as it is
StatisticsFromJSONKeepsCount(stats, data) ==
  [totalResourcesEarned |-> data.totalResourcesEarned,
   totalResourcesSpent |-> data.totalResourcesSpent,
   totalGeneratorsPurchased |-> data.totalGeneratorsPurchased,
   totalUpgradesPurchased |-> data.totalUpgradesPurchased,
   achievementsUnlocked |-> stats.achievementsUnlocked,
   totalClicks |-> data.totalClicks,
   timePlayed |-> data.timePlayed,
   sessionStartTime |-> data.sessionStartTime]

\* StatisticsTracker.fromJSON on what toJSON has written: every field is
\* present in data and replaces the tracker's
StatisticsFromJSON(stats, data) ==
  [totalResourcesEarned |-> data.totalResourcesEarned,
   totalResourcesSpent |-> data.totalResourcesSpent,
   totalGeneratorsPurchased |-> data.totalGeneratorsPurchased,
   totalUpgradesPurchased |-> data.totalUpgradesPurchased,
   achievementsUnlocked |-> data.achievementsUnlocked,
   totalClicks |-> data.totalClicks,
   timePlayed |-> data.timePlayed,
   sessionStartTime |-> data.sessionStartTime]

(***************************************************************************)
(* GameEngine                                                              *)
(***************************************************************************)
MsPerSecond == 1000
\* new GameEngine({ autoSaveInterval: 1000 })
AutoSaveInterval == 1 * MsPerSecond
\* processOfflineProgress: const maxOfflineTime = 24 * 60 * 60
MaxOfflineTime == 24 * 60 * 60
\* the time at which the engine is constructed
StartTime == MsPerSecond

NoEffects == [u \in Upgrades |-> 0]

Call(op, id, arg, ok) ==
  [op |-> op, id |-> id, arg |-> arg, ok |-> ok, costs |-> <<>>,
   effects |-> NoEffects, unlockedNow |-> {}, earned |-> [r \in Resources |-> 0]]

\* the production loop depositing whatever the product is, its sign unchecked
RECURSIVE ProcessGeneratorsUnchecked(_, _, _, _, _)
ProcessGeneratorsUnchecked(i, am, owned, pms, seconds) ==
  IF i > Len(GeneratorOrder)
    THEN am
    ELSE LET g == GeneratorOrder[i]
             production == GetCurrentProduction(g, owned[g], pms[g]) * seconds
             r == GeneratorConfig(g).producesResourceId
         IN  ProcessGeneratorsUnchecked(i + 1,
               IF r \in DOMAIN am
                 THEN [am EXCEPT ![r] = ResourceAdd(am[r], ResourceMaxAmount(r), production)]
                 ELSE am,
               owned, pms, seconds)

\* the generator loop of tick and of processOfflineProgress, from generator i
\* of the enumeration on, for `seconds` of production
RECURSIVE ProcessGenerators(_, _, _, _, _)
ProcessGenerators(i, am, owned, pms, seconds) ==
  IF i > Len(GeneratorOrder)
    THEN am
    ELSE LET g == GeneratorOrder[i]
             production == GetCurrentProduction(g, owned[g], pms[g]) * seconds
             r == GeneratorConfig(g).producesResourceId
         IN  ProcessGenerators(i + 1,
               IF r \in DOMAIN am /\ production > 0
                 THEN [am EXCEPT ![r] = ResourceAdd(am[r], ResourceMaxAmount(r), production)]
                 ELSE am,
               owned, pms, seconds)

\* the statistics.recordResourceEarned calls of the same loop: what is
\* recorded as earned for each resource, added to `earned`
RECURSIVE RecordedEarned(_, _, _, _, _)
RecordedEarned(i, earned, owned, pms, seconds) ==
  IF i > Len(GeneratorOrder)
    THEN earned
    ELSE LET g == GeneratorOrder[i]
             production == GetCurrentProduction(g, owned[g], pms[g]) * seconds
             r == GeneratorConfig(g).producesResourceId
         IN  RecordedEarned(i + 1,
               IF r \in DOMAIN earned /\ production > 0
                 THEN [earned EXCEPT ![r] = @ + production]
                 ELSE earned,
               owned, pms, seconds)

\* the offline time taken as it comes
OfflineTimeUncapped(seconds) == seconds

\* processOfflineProgress: Math.min(seconds, maxOfflineTime)
OfflineTime(seconds) == Min(seconds, MaxOfflineTime)

\* GameEngine.processOfflineProgress
ProcessOfflineProgress(am, owned, pms, seconds) ==
  ProcessGenerators(1, am, owned, pms, OfflineTime(seconds))

\* The fields of a stored record that load() iterates.  shape tells what
\* kind of value each holds: a list of entries (keyed here by the id each
\* entry names), or, in a record that the engine has not written, nothing
\* ("missing"), a number, a string ("text") or an object that is no list.
ListFields == {"resources", "generators", "upgrades", "achievements"}

Kinds == {"list", "missing", "number", "text", "object"}

\* a record written without the achievements' flags
SaveDataWithoutFlags(am, owned, ups, unl, stats, timestamp) ==
  [parsed |-> TRUE, shape |-> [f \in ListFields |-> "list"],
   resources |-> am, generators |-> owned, upgrades |-> ups,
   achievements |-> [a \in Achievements |-> FALSE], statistics |-> stats,
   timestamp |-> timestamp]

\* the record GameEngine.save writes (a generator's entry also lists its
\* multipliers, which load never reads): JSON.parse reads it back (parsed),
\* and its four fields are lists with one entry for each registered object
SaveData(am, owned, ups, unl, stats, timestamp) ==
  [parsed |-> TRUE, shape |-> [f \in ListFields |-> "list"],
   resources |-> am, generators |-> owned, upgrades |-> ups,
   achievements |-> unl, statistics |-> stats, timestamp |-> timestamp]

\* the upgrade loop of GameEngine.load: every upgrade's effect replayed
\* `purchased` times, in enumeration order from upgrade i on
RECURSIVE ReplayUpgrades(_, _, _)
ReplayUpgrades(i, ups, st) ==
  IF i > Len(UpgradeOrder)
    THEN st
    ELSE ReplayUpgrades(i + 1, ups,
           ReplayEffect(UpgradeOrder[i], ups[UpgradeOrder[i]], st))

\* the achievement loop of tick, from achievement i of the enumeration on:
\* if (achievement.check() && !wasUnlocked) statistics.recordAchievementUnlocked()
RECURSIVE RecordUnlocks(_, _, _, _)
RecordUnlocks(i, stats, wasUnlocked, checks) ==
  IF i > Len(AchievementOrder)
    THEN stats
    ELSE LET a == AchievementOrder[i]
         IN  RecordUnlocks(i + 1,
               IF checks[a].ret /\ ~wasUnlocked[a]
                 THEN RecordAchievementUnlocked(stats)
                 ELSE stats,
               wasUnlocked, checks)

\* the pass run on the amounts held before the generators have produced
CheckAllBeforeProduction(unl, am, owned) ==
  [a \in Achievements |-> AchievementCheck(unl[a], Condition(a, amount, owned))]

\* what one pass of achievement.check() over all achievements does
CheckAll(unl, am, owned) ==
  [a \in Achievements |-> AchievementCheck(unl[a], Condition(a, am, owned))]

Saturate(n) == Min(n, MaxCalls)

\* the exploration keeps to amounts of at most MaxWhole whole resources and
\* what two units yield in one capped offline period, and to MaxAttached
\* multipliers per generator
MaxHeld == MaxUnits + 2 * MaxOfflineTime * Unit

WithinBounds(am, pms) ==
  /\ \A r \in Resources : am[r] <= MaxHeld
  /\ \A g \in Generators : Len(pms[g]) <= MaxAttached

(***************************************************************************)
(* The probe.  mark is the time of the last start() or tick it has seen,   *)
(* ran the time from each start() to the last tick of that running period, *)
(* summed over the periods, deposited what the engine's resource.add calls *)
(* have raised each amount by, earned what it has passed to                *)
(* recordResourceEarned.                                                   *)
(***************************************************************************)
NothingYet == [r \in Resources |-> 0]

FreshProbe ==
  {[mark |-> StartTime, ran |-> 0, deposited |-> NothingYet, earned |-> NothingYet]}

\* the probe after a start() that found the engine stopped
ProbeStarted == {[p EXCEPT !.mark = now] : p \in probe}

\* the probe after the engine has run a generator loop for `seconds` that
\* took the amounts to am
ProbeProduced(prb, am, owned, pms, seconds) ==
  {[p EXCEPT !.deposited = [r \in Resources |-> @[r] + am[r] - amount[r]],
             !.earned = RecordedEarned(1, @, owned, pms, seconds)] : p \in prb}

\* the probe after a tick
ProbeTicked(am) ==
  ProbeProduced({[p EXCEPT !.ran = @ + (now - p.mark), !.mark = now] : p \in probe},
                am, purchased, productionMultipliers,
                (now - lastTick) \div MsPerSecond)

Init ==
  /\ amount \in {am \in [Resources -> 0 .. MaxUnits] :
                   \A r \in Resources : am[r] \in ResourceInitialAmounts(r)}
  /\ purchased = [g \in Generators |-> 0]
  /\ productionMultipliers = [g \in Generators |-> <<>>]
  /\ upgradePurchased = [u \in Upgrades |-> 0]
  /\ unlocked = [a \in Achievements |-> FALSE]
  /\ rewardCalls = [a \in Achievements |-> 0]
  /\ storage = {}
  /\ now = StartTime
  /\ lastTick = StartTime
  /\ lastSave = StartTime
  /\ tickInterval = Null
  /\ timers = {}
  /\ probe = Null
  /\ statistics = Null
  /\ last = Call("constructor", "", 0, TRUE)

\* the wall clock moves on by d seconds, no further than `horizon` seconds
ClockMoves(d, horizon) ==
  /\ now + d * MsPerSecond <= StartTime + horizon * MsPerSecond
  /\ now' = now + d * MsPerSecond
  /\ last' = Call("clock", "", d, TRUE)
  /\ UNCHANGED <<amount, purchased, productionMultipliers, upgradePurchased,
                 unlocked, rewardCalls, storage, lastTick, lastSave, tickInterval,
                 timers, probe, statistics>>

AdvanceClock(d) == ClockMoves(d, MaxNow)

\* window.setInterval: a handle that is not in use
NewHandle == CHOOSE h \in 1 .. Cardinality(timers) + 1 : h \notin timers

\* start() without the test of tickInterval
StartAgain ==
  /\ lastTick' = now
  /\ lastSave' = now
  /\ tickInterval' = {NewHandle}
  /\ timers' = timers \cup {NewHandle}
  /\ probe' = ProbeStarted
  /\ last' = Call("start", "", 0, TRUE)
  /\ UNCHANGED <<amount, purchased, productionMultipliers, upgradePurchased,
                 unlocked, rewardCalls, storage, now, statistics>>

\* start() that registers the timer and keeps the old time references
StartWithoutReference ==
  /\ IF tickInterval # Null
       THEN UNCHANGED <<tickInterval, timers, probe>>
       ELSE /\ tickInterval' = {NewHandle}
            /\ timers' = timers \cup {NewHandle}
            /\ probe' = ProbeStarted
  /\ last' = Call("start", "", 0, TRUE)
  /\ UNCHANGED <<amount, purchased, productionMultipliers, upgradePurchased,
                 unlocked, rewardCalls, storage, now, lastTick, lastSave, statistics>>

\* GameEngine.start
Start ==
  /\ IF tickInterval # Null
       THEN UNCHANGED <<lastTick, lastSave, tickInterval, timers, probe>>
       ELSE /\ lastTick' = now
            /\ lastSave' = now
            /\ tickInterval' = {NewHandle}
            /\ timers' = timers \cup {NewHandle}
            /\ probe' = ProbeStarted
  /\ last' = Call("start", "", 0, TRUE)
  /\ UNCHANGED <<amount, purchased, productionMultipliers, upgradePurchased,
                 unlocked, rewardCalls, storage, now, statistics>>

\* stop() that forgets the handle without clearInterval
StopForgetsTimer ==
  /\ tickInterval' = Null
  /\ last' = Call("stop", "", 0, TRUE)
  /\ UNCHANGED <<amount, purchased, productionMultipliers, upgradePurchased,
                 unlocked, rewardCalls, storage, now, lastTick, lastSave, timers,
                 probe, statistics>>

\* GameEngine.stop
Stop ==
  /\ IF tickInterval # Null
       THEN /\ timers' = timers \ tickInterval
            /\ tickInterval' = Null
       ELSE UNCHANGED <<tickInterval, timers>>
  /\ last' = Call("stop", "", 0, TRUE)
  /\ UNCHANGED <<amount, purchased, productionMultipliers, upgradePurchased,
                 unlocked, rewardCalls, storage, now, lastTick, lastSave, probe, statistics>>

\* GameEngine.save
Save ==
  /\ statistics' = {UpdateTimePlayed(stats, now) : stats \in statistics}
  /\ storage' = {SaveData(amount, purchased, upgradePurchased, unlocked, statistics', now)}
  /\ last' = Call("save", "", 0, TRUE)
  /\ UNCHANGED <<amount, purchased, productionMultipliers, upgradePurchased,
                 unlocked, rewardCalls, now, lastTick, lastSave, tickInterval,
                 timers, probe>>

\* the auto-save test with the comparison >
AutoSaveDueLater(lastSaved) == now - lastSaved > AutoSaveInterval

\* tick: now - this.lastSave >= this.autoSaveInterval
AutoSaveDue(lastSaved) == now - lastSaved >= AutoSaveInterval

\* GameEngine.tick: the callback of a registered timer
Tick ==
  /\ timers # {}
  /\ \E deltaTime \in {(now - lastTick) \div MsPerSecond} :
     \E am \in {ProcessGenerators(1, amount, purchased, productionMultipliers,
                                    deltaTime)} :
     \E checks \in {CheckAll(unlocked, am, purchased)} :
     LET unl == [a \in Achievements |-> checks[a].unlocked]
         recorded ==
           {RecordUnlocks(1,
              [stats EXCEPT !.totalResourcesEarned =
                              RecordedEarned(1, @, purchased, productionMultipliers,
                                             deltaTime)],
              unlocked, checks) : stats \in statistics}
     IN  /\ WithinBounds(am, productionMultipliers)
         /\ lastTick' = now
         /\ amount' = am
         /\ probe' = ProbeTicked(am)
         /\ unlocked' = unl
         /\ rewardCalls' = [a \in Achievements |->
                              IF checks[a].rewarded
                                THEN Saturate(rewardCalls[a] + 1)
                                ELSE rewardCalls[a]]
         /\ IF AutoSaveDue(lastSave)
              THEN /\ statistics' = {UpdateTimePlayed(stats, now) : stats \in recorded}
                   /\ storage' = {SaveData(am, purchased, upgradePurchased, unl,
                                            statistics', now)}
                   /\ lastSave' = now
              ELSE /\ statistics' = recorded
                   /\ UNCHANGED <<storage, lastSave>>
         /\ last' = [Call("tick", "", 0, TRUE) EXCEPT
                       !.unlockedNow = {a \in Achievements : checks[a].ret},
                       !.earned = RecordedEarned(1, @, purchased,
                                                 productionMultipliers, deltaTime)]
  /\ UNCHANGED <<purchased, productionMultipliers, upgradePurchased, now, tickInterval,
                 timers>>

\* for (const entry of field): a list yields its entries and a string its
\* characters; undefined, a number and a plain object are not iterable and
\* the loop throws a TypeError
Iterable(kind) == kind \in {"list", "text"}

\* the loop over field f of the record visits an entry with this id (the
\* characters of a string have no id, and get(undefined) finds no object)
HasEntry(saveData, f, id) ==
  saveData.shape[f] = "list" /\ id \in DOMAIN saveData[f]

\* the loops of load() with fromJSON called on whatever get(id) returns: an
\* entry that names no registered object throws
RestoreFieldsStrict(saveData, am0, owned0, ups0, unl0, pms) ==
  [ok |-> /\ saveData.parsed
          /\ \A f \in ListFields : saveData.shape[f] = "list"
          /\ DOMAIN saveData.resources \subseteq Resources
          /\ DOMAIN saveData.generators \subseteq Generators
          /\ DOMAIN saveData.upgrades \subseteq Upgrades
          /\ DOMAIN saveData.achievements \subseteq Achievements,
   amount |-> am0, restored |-> am0, purchased |-> owned0, upgrades |-> ups0,
   multipliers |-> pms, effects |-> NoEffects, unlocked |-> unl0, seconds |-> 0]

\* the four loops of GameEngine.load over the record saveData, in an engine
\* that holds the amounts am0, the counts owned0 and ups0, the flags unl0 and
\* the multiplier lists pms: each loop restores the registered objects that
\* the record has an entry for and skips the other entries; a loop that
\* throws leaves what the loops before it have done.  ok tells that no loop
\* has thrown, effects how often each effect() has been called.
RestoreFields(saveData, am0, owned0, ups0, unl0, pms) ==
  LET threw1 == ~saveData.parsed \/ ~Iterable(saveData.shape["resources"])
      threw2 == threw1 \/ ~Iterable(saveData.shape["generators"])
      threw3 == threw2 \/ ~Iterable(saveData.shape["upgrades"])
      threw4 == threw3 \/ ~Iterable(saveData.shape["achievements"])
      am == [r \in Resources |->
               IF ~threw1 /\ HasEntry(saveData, "resources", r)
                 THEN ResourceFromJSON([amount |-> saveData.resources[r]])
                 ELSE am0[r]]
      owned == [g \in Generators |->
                  IF ~threw2 /\ HasEntry(saveData, "generators", g)
                    THEN GeneratorFromJSON([purchased |-> saveData.generators[g]])
                    ELSE owned0[g]]
      ups == [u \in Upgrades |->
                IF ~threw3 /\ HasEntry(saveData, "upgrades", u)
                  THEN UpgradeFromJSON([purchased |-> saveData.upgrades[u]])
                  ELSE ups0[u]]
      replayed == ReplayUpgrades(1,
                    [u \in Upgrades |->
                       IF ~threw3 /\ HasEntry(saveData, "upgrades", u) THEN ups[u] ELSE 0],
                    [pms |-> pms, calls |-> NoEffects])
      unl == [a \in Achievements |->
                IF ~threw4 /\ HasEntry(saveData, "achievements", a)
                  THEN AchievementFromJSON([unlocked |-> saveData.achievements[a]])
                  ELSE unl0[a]]
  IN  [ok |-> ~threw4, amount |-> am, restored |-> am, purchased |-> owned,
       upgrades |-> ups, multipliers |-> replayed.pms, effects |-> replayed.calls,
       unlocked |-> unl, seconds |-> 0]

\* load computing the offline progress before it replays the effects
RestoreOfflineFirst(saveData, am0, owned0, ups0, unl0, pms) ==
  LET res == RestoreFields(saveData, am0, owned0, ups0, unl0, pms)
      offlineTime == (now - saveData.timestamp) \div MsPerSecond
  IN  IF res.ok /\ saveData.timestamp # 0
        THEN [res EXCEPT
                !.amount = ProcessOfflineProgress(res.restored, res.purchased, pms,
                                                  offlineTime),
                !.seconds = OfflineTime(offlineTime)]
        ELSE res

\* the try block of GameEngine.load on the record saveData: the amounts as
\* restored and after the offline progress, the restored counts and flags,
\* the multiplier lists after the replay, the number of effect() calls, the
\* seconds of offline progress processed, and whether the block completed
Restore(saveData, am0, owned0, ups0, unl0, pms) ==
  LET res == RestoreFields(saveData, am0, owned0, ups0, unl0, pms)
      offlineTime == (now - saveData.timestamp) \div MsPerSecond
  IN  IF res.ok /\ saveData.timestamp # 0
        THEN [res EXCEPT
                !.amount = ProcessOfflineProgress(res.restored, res.purchased,
                                                  res.multipliers, offlineTime),
                !.seconds = OfflineTime(offlineTime)]
        ELSE res

\* load() that falls back to the defaults when it finds no record
LoadNothingDefaults ==
  /\ amount' = [r \in Resources |-> 0]
  /\ purchased' = [g \in Generators |-> 0]
  /\ upgradePurchased' = [u \in Upgrades |-> 0]
  /\ unlocked' = [a \in Achievements |-> FALSE]
  /\ statistics' = {FreshStatistics(now) : stats \in statistics}
  /\ last' = Call("load", "", 0, FALSE)
  /\ UNCHANGED <<productionMultipliers, rewardCalls, storage, now, lastTick, lastSave,
                 tickInterval, timers, probe>>

\* GameEngine.load when getItem returns null: if (!saveDataStr) return false
LoadNothing ==
  /\ last' = Call("load", "", 0, FALSE)
  /\ UNCHANGED <<amount, purchased, productionMultipliers, upgradePurchased,
                 unlocked, rewardCalls, storage, now, lastTick, lastSave,
                 tickInterval, timers, probe, statistics>>

\* GameEngine.load on the record saveData: the try block, and the catch
\* block that returns false when the try block has thrown
LoadRecord(saveData) ==
  \E res \in {Restore(saveData, amount, purchased, upgradePurchased, unlocked,
                      productionMultipliers)} :
      /\ WithinBounds(res.amount, res.multipliers)
      /\ amount' = res.amount
      /\ purchased' = res.purchased
      /\ upgradePurchased' = res.upgrades
      /\ productionMultipliers' = res.multipliers
      /\ unlocked' = res.unlocked
      /\ probe' = {[p EXCEPT
                      !.deposited = [r \in Resources |->
                                       @[r] + res.amount[r] - res.restored[r]],
                      !.earned = RecordedEarned(1, @, res.purchased,
                                                res.multipliers, res.seconds)]
                     : p \in probe}
      /\ statistics' =
           IF res.ok
             THEN {[(IF saveData.statistics = Null
                       THEN stats
                       ELSE StatisticsFromJSON(stats,
                              CHOOSE data \in saveData.statistics : TRUE)) EXCEPT
                      !.totalResourcesEarned = RecordedEarned(1, @, res.purchased,
                                                 res.multipliers, res.seconds)]
                     : stats \in statistics}
             ELSE statistics
      /\ last' = [Call("load", "", 0, res.ok) EXCEPT
                    !.effects = res.effects,
                    !.earned = RecordedEarned(1, @, res.purchased,
                                              res.multipliers, res.seconds)]
      /\ UNCHANGED <<rewardCalls, storage, now, lastTick, lastSave, tickInterval,
                     timers>>

\* GameEngine.load
Load ==
  IF storage = {}
    THEN LoadNothing
    ELSE LoadRecord(CHOOSE d \in storage : TRUE)

\* reset() that leaves the persisted record in place
ResetKeepsRecord ==
  /\ amount' = [r \in Resources |-> ResourceFromJSON([amount |-> 0])]
  /\ purchased' = [g \in Generators |-> GeneratorFromJSON([purchased |-> 0])]
  /\ upgradePurchased' = [u \in Upgrades |-> UpgradeFromJSON([purchased |-> 0])]
  /\ unlocked' = [a \in Achievements |-> AchievementFromJSON([unlocked |-> FALSE])]
  /\ statistics' = {FreshStatistics(now) : stats \in statistics}
  /\ last' = Call("reset", "", 0, TRUE)
  /\ UNCHANGED <<productionMultipliers, rewardCalls, storage, now, lastTick, lastSave,
                 tickInterval, timers, probe>>

\* GameEngine.reset
Reset ==
  /\ amount' = [r \in Resources |-> ResourceFromJSON([amount |-> 0])]
  /\ purchased' = [g \in Generators |-> GeneratorFromJSON([purchased |-> 0])]
  /\ upgradePurchased' = [u \in Upgrades |-> UpgradeFromJSON([purchased |-> 0])]
  /\ unlocked' = [a \in Achievements |-> AchievementFromJSON([unlocked |-> FALSE])]
  /\ statistics' = {FreshStatistics(now) : stats \in statistics}
  /\ storage' = {}
  /\ last' = Call("reset", "", 0, TRUE)
  /\ UNCHANGED <<productionMultipliers, rewardCalls, now, lastTick, lastSave,
                 tickInterval, timers, probe>>

\* the quantities the store's purchaseGenerator is called with
Quantities == {1, 2}

\* the entries bought while the engine runs; the mill and the entries that
\* name resources the game does not define are bought in SpecPurchase
StoreGenerators == {"farmer"}

StoreUpgrades == {"tools", "land"}

\* generator.purchase(resourceMap, quantity), as the store's purchaseGenerator calls it
PurchaseGenerator(g, quantity) ==
  \E res \in {GeneratorPurchase(g, purchased[g], amount, quantity)} :
      /\ res.purchased >= -MaxDebt
      /\ amount' = res.amount
      /\ purchased' = [purchased EXCEPT ![g] = res.purchased]
      /\ statistics' = IF res.ok
                         THEN {RecordGeneratorPurchase(stats, g, quantity)
                                 : stats \in statistics}
                         ELSE statistics
      /\ last' = Call("Generator.purchase", g, quantity, res.ok)
      /\ UNCHANGED <<productionMultipliers, upgradePurchased, unlocked, rewardCalls,
                     storage, now, lastTick, lastSave, tickInterval, timers, probe>>

\* upgrade.purchase(resourceMap), as the store's purchaseUpgrade calls it
PurchaseUpgrade(u) ==
  \E res \in {UpgradePurchase(u, upgradePurchased[u], amount, productionMultipliers)} :
      /\ WithinBounds(res.amount, res.multipliers)
      /\ amount' = res.amount
      /\ upgradePurchased' = [upgradePurchased EXCEPT ![u] = res.purchased]
      /\ productionMultipliers' = res.multipliers
      /\ last' = [Call("Upgrade.purchase", u, 0, res.success) EXCEPT
                    !.costs = res.costs,
                    !.effects = [NoEffects EXCEPT ![u] = res.effects]]
      \* the store tests the object that purchase returns, {success, costs},
      \* which is truthy whether or not success is
      /\ statistics' = {RecordUpgradePurchase(stats, u) : stats \in statistics}
      /\ \A stats \in statistics' : stats.totalUpgradesPurchased[u] <= MaxRecorded
      /\ UNCHANGED <<purchased, unlocked, rewardCalls, storage, now, lastTick,
                     lastSave, tickInterval, timers, probe>>

\* handleManualClick of the application, on the resource it clicks for
HandleManualClick(r) ==
  /\ r \in Resources
  /\ amount' = [amount EXCEPT ![r] = ResourceAdd(@, ResourceMaxAmount(r), Unit)]
  /\ statistics' = {RecordResourceEarned(RecordClick(stats), r, Unit)
                      : stats \in statistics}
  /\ \A stats \in statistics' : stats.totalClicks <= MaxRecorded
  /\ last' = Call("handleManualClick", r, 0, TRUE)
  /\ UNCHANGED <<purchased, productionMultipliers, upgradePurchased, unlocked,
                 rewardCalls, storage, now, lastTick, lastSave, tickInterval, timers,
                 probe>>

(***************************************************************************)
(* The engine as the application drives it: the store's purchases, the     *)
(* timer's ticks, save, load and reset, with the clock moving on.          *)
(***************************************************************************)
Next ==
  \/ \E d \in 1 .. MaxNow : AdvanceClock(d)
  \/ Start
  \/ Stop
  \/ Tick
  \/ Save
  \/ Load
  \/ Reset
  \/ \E g \in StoreGenerators, quantity \in Quantities : PurchaseGenerator(g, quantity)
  \/ \E u \in StoreUpgrades : PurchaseUpgrade(u)

Spec == Init /\ [][Next]_vars

(***************************************************************************)
(* Purchases on their own: any balances a game may hold when purchase is   *)
(* called, and any integer quantity from AnyQuantities.                    *)
(***************************************************************************)
\* the balances: nothing, one whole resource, or as much as the model holds
Balances == {0, Unit, MaxUnits}

AnyQuantities == -1 .. 3

InitBalances ==
  /\ amount \in [Resources -> Balances]
  /\ purchased = [g \in Generators |-> 0]
  /\ productionMultipliers = [g \in Generators |-> <<>>]
  /\ upgradePurchased = [u \in Upgrades |-> 0]
  /\ unlocked = [a \in Achievements |-> FALSE]
  /\ rewardCalls = [a \in Achievements |-> 0]
  /\ storage = {}
  /\ now = StartTime
  /\ lastTick = StartTime
  /\ lastSave = StartTime
  /\ tickInterval = Null
  /\ timers = {}
  /\ probe = Null
  /\ statistics = Null
  /\ last = Call("constructor", "", 0, TRUE)

\* the generators bought or priced on their own: one with a cap, one with two
\* costs, one whose cost names an unregistered resource
BoughtGenerators == {"farmer", "mill", "ghost"}

NextPurchase ==
  \/ \E g \in BoughtGenerators, quantity \in AnyQuantities : PurchaseGenerator(g, quantity)
  \/ \E u \in Upgrades : PurchaseUpgrade(u)

SpecPurchase == InitBalances /\ [][NextPurchase]_vars

(***************************************************************************)
(* Resource on its own: constructed with any initialAmount, then add and   *)
(* subtract called with any value from Values.                             *)
(***************************************************************************)
Values == {n * Unit : n \in -1 .. 2}

\* resource.add(value)
Add(r, value) ==
  LET a == ResourceAdd(amount[r], ResourceMaxAmount(r), value)
  IN  /\ a >= -MaxUnits /\ a <= MaxUnits
      /\ amount' = [amount EXCEPT ![r] = a]
      /\ last' = Call("Resource.add", r, value, TRUE)
      /\ UNCHANGED <<purchased, productionMultipliers, upgradePurchased, unlocked,
                     rewardCalls, storage, now, lastTick, lastSave, tickInterval, timers, probe, statistics>>

\* resource.subtract(value)
Subtract(r, value) ==
  LET res == ResourceSubtract(amount[r], value)
  IN  /\ res.amount >= -MaxUnits /\ res.amount <= MaxUnits
      /\ amount' = [amount EXCEPT ![r] = res.amount]
      /\ last' = Call("Resource.subtract", r, value, res.ok)
      /\ UNCHANGED <<purchased, productionMultipliers, upgradePurchased, unlocked,
                     rewardCalls, storage, now, lastTick, lastSave, tickInterval, timers, probe, statistics>>

NextResource ==
  \/ \E r \in Resources, value \in Values : Add(r, value)
  \/ \E r \in Resources, value \in Values : Subtract(r, value)

SpecResource == InitBalances /\ [][NextResource]_vars

(***************************************************************************)
(* Achievement.check called at any moment of a game in which nothing is    *)
(* spent that a condition reads, so that a condition, once true, stays     *)
(* true: the farmer is bought, the timer ticks, nothing is loaded or       *)
(* reset.                                                                  *)
(***************************************************************************)
\* achievement.check()
Check(a) ==
  LET res == AchievementCheck(unlocked[a], Condition(a, amount, purchased))
  IN  /\ unlocked' = [unlocked EXCEPT ![a] = res.unlocked]
      /\ rewardCalls' = [rewardCalls EXCEPT ![a] =
                           IF res.rewarded THEN Saturate(@ + 1) ELSE @]
      /\ last' = [Call("Achievement.check", a, 0, res.ret) EXCEPT
                    !.unlockedNow = IF res.ret THEN {a} ELSE {}]
      /\ UNCHANGED <<amount, purchased, productionMultipliers, upgradePurchased,
                     storage, now, lastTick, lastSave, tickInterval, timers, probe, statistics>>

NextAchievement ==
  \/ \E a \in Achievements : Check(a)
  \/ \E quantity \in Quantities : PurchaseGenerator("farmer", quantity)
  \/ \E d \in 1 .. MaxNow : AdvanceClock(d)
  \/ Start
  \/ Stop
  \/ Tick

SpecAchievement == Init /\ [][NextAchievement]_vars

(***************************************************************************)
(* getMaxAffordable on its own: asked of a game that holds any balances    *)
(* from Fortunes and owns any number of farmers and mills from OwnedCounts.*)
(***************************************************************************)
\* a balance that pays for more mills than the search's ceiling
Fortune == 2 * (SentinelCeiling + 1) * Unit

Fortunes == {0, Unit, 3 * Unit, MaxUnits, Fortune}

OwnedCounts == 0 .. 2

InitAffordable ==
  /\ amount \in [Resources -> Fortunes]
  /\ purchased \in {owned \in [Generators -> OwnedCounts] :
                      owned["ghost"] = 0 /\ owned["baker"] = 0}
  /\ productionMultipliers = [g \in Generators |-> <<>>]
  /\ upgradePurchased = [u \in Upgrades |-> 0]
  /\ unlocked = [a \in Achievements |-> FALSE]
  /\ rewardCalls = [a \in Achievements |-> 0]
  /\ storage = {}
  /\ now = StartTime
  /\ lastTick = StartTime
  /\ lastSave = StartTime
  /\ tickInterval = Null
  /\ timers = {}
  /\ probe = Null
  /\ statistics = Null
  /\ last = Call("constructor", "", 0, TRUE)

\* generator.getMaxAffordable(resourceMap), as the generator card calls it
MaxAffordable(g) ==
  /\ last' = Call("getMaxAffordable", g, GetMaxAffordable(g, purchased[g], amount), TRUE)
  /\ UNCHANGED <<amount, purchased, productionMultipliers, upgradePurchased, unlocked,
                 rewardCalls, storage, now, lastTick, lastSave, tickInterval, timers, probe, statistics>>

NextAffordable == \E g \in BoughtGenerators : MaxAffordable(g)

SpecAffordable == InitAffordable /\ [][NextAffordable]_vars

(***************************************************************************)
(* getCurrentProduction on its own: asked of generators that own any       *)
(* number of units from OwnedCounts, the farmer with any list of at most   *)
(* MaxAttached multipliers attached.                                       *)
(***************************************************************************)
MultiplierLists ==
  UNION {[1 .. n -> Multipliers] : n \in 0 .. MaxAttached}

InitProduction ==
  /\ amount \in {am \in [Resources -> 0 .. MaxUnits] :
                   \A r \in Resources : am[r] \in ResourceInitialAmounts(r)}
  /\ purchased \in {owned \in [Generators -> OwnedCounts] :
                      owned["ghost"] = 0 /\ owned["baker"] = 0}
  /\ productionMultipliers \in
       {pms \in [Generators -> MultiplierLists] :
          pms["mill"] = <<>> /\ pms["ghost"] = <<>> /\ pms["baker"] = <<>>}
  /\ upgradePurchased = [u \in Upgrades |-> 0]
  /\ unlocked = [a \in Achievements |-> FALSE]
  /\ rewardCalls = [a \in Achievements |-> 0]
  /\ storage = {}
  /\ now = StartTime
  /\ lastTick = StartTime
  /\ lastSave = StartTime
  /\ tickInterval = Null
  /\ timers = {}
  /\ probe = Null
  /\ statistics = Null
  /\ last = Call("constructor", "", 0, TRUE)

\* generator.getCurrentProduction(), as the generator card calls it
Production(g) ==
  /\ last' = Call("getCurrentProduction", g,
                  GetCurrentProduction(g, purchased[g], productionMultipliers[g]), TRUE)
  /\ UNCHANGED <<amount, purchased, productionMultipliers, upgradePurchased, unlocked,
                 rewardCalls, storage, now, lastTick, lastSave, tickInterval, timers, probe, statistics>>

NextProduction == \E g \in Generators : Production(g)

SpecProduction == InitProduction /\ [][NextProduction]_vars

(***************************************************************************)
(* The timer on its own: a game that owns mills (and perhaps a farmer) is  *)
(* started, ticked at any whole second up to MaxRun, stopped and started   *)
(* again; nothing is bought, loaded or reset, so that each generator's     *)
(* production is constant.  The probe is attached.                         *)
(***************************************************************************)
InitTiming ==
  /\ amount = [r \in Resources |-> 0]
  /\ purchased \in {owned \in [Generators -> OwnedCounts] :
                      owned["mill"] >= 1 /\ owned["farmer"] <= 1 /\ owned["ghost"] = 0
                      /\ owned["baker"] = 0}
  /\ productionMultipliers = [g \in Generators |-> <<>>]
  /\ upgradePurchased = [u \in Upgrades |-> 0]
  /\ unlocked = [a \in Achievements |-> FALSE]
  /\ rewardCalls = [a \in Achievements |-> 0]
  /\ storage = {}
  /\ now = StartTime
  /\ lastTick = StartTime
  /\ lastSave = StartTime
  /\ tickInterval = Null
  /\ timers = {}
  /\ probe = FreshProbe
  /\ statistics = Null
  /\ last = Call("constructor", "", 0, TRUE)

NextTiming ==
  \/ \E d \in 1 .. MaxRun : ClockMoves(d, MaxRun)
  \/ Start
  \/ Stop
  \/ Tick

SpecTiming == InitTiming /\ [][NextTiming]_vars

(***************************************************************************)
(* The game with its statistics: farmers and tools are bought through the  *)
(* store, and the engine ticks, saves, loads and resets.                   *)
(***************************************************************************)
InitStatistics ==
  /\ amount \in {am \in [Resources -> 0 .. MaxUnits] :
                   \A r \in Resources : am[r] \in ResourceInitialAmounts(r)}
  /\ purchased = [g \in Generators |-> 0]
  /\ productionMultipliers = [g \in Generators |-> <<>>]
  /\ upgradePurchased = [u \in Upgrades |-> 0]
  /\ unlocked = [a \in Achievements |-> FALSE]
  /\ rewardCalls = [a \in Achievements |-> 0]
  /\ storage = {}
  /\ now = StartTime
  /\ lastTick = StartTime
  /\ lastSave = StartTime
  /\ tickInterval = Null
  /\ timers = {}
  /\ probe = Null
  /\ statistics = {FreshStatistics(StartTime)}
  /\ last = Call("constructor", "", 0, TRUE)

NextStatistics ==
  \/ \E d \in 1 .. MaxNow : AdvanceClock(d)
  \/ Start
  \/ Tick
  \/ Save
  \/ Load
  \/ Reset
  \/ PurchaseGenerator("farmer", 1)
  \/ PurchaseUpgrade("tools")

SpecStatistics == InitStatistics /\ [][NextStatistics]_vars

(***************************************************************************)
(* One session of play: the game is started, ticked and saved at any whole *)
(* second up to MaxRun, by hand and by the tick's auto-save; both call      *)
(* updateTimePlayed.  Nothing is loaded or reset.                          *)
(***************************************************************************)
NextSession ==
  \/ \E d \in 1 .. MaxRun : ClockMoves(d, MaxRun)
  \/ Start
  \/ Tick
  \/ Save
  \/ PurchaseGenerator("farmer", 1)

SpecSession == InitStatistics /\ [][NextSession]_vars

(***************************************************************************)
(* The generators registered in any order: the engine's Map enumerates    *)
(* them in the order of the addGenerator calls.                            *)
(***************************************************************************)
\* the orders in which the game's generators can have been registered
Orders ==
  {order \in [1 .. Cardinality(Generators) -> Generators] :
     \A g \in Generators : \E i \in DOMAIN order : order[i] = g}

\* the production loop of tick over generators registered in the given order,
\* from generator i on
RECURSIVE ProcessGeneratorsIn(_, _, _, _, _, _)
ProcessGeneratorsIn(order, i, am, owned, pms, seconds) ==
  IF i > Len(order)
    THEN am
    ELSE LET g == order[i]
             production == GetCurrentProduction(g, owned[g], pms[g]) * seconds
             r == GeneratorConfig(g).producesResourceId
         IN  ProcessGeneratorsIn(order, i + 1,
               IF r \in DOMAIN am /\ production > 0
                 THEN [am EXCEPT ![r] = ResourceAdd(am[r], ResourceMaxAmount(r), production)]
                 ELSE am,
               owned, pms, seconds)

\* what that loop passes to statistics.recordResourceEarned
RECURSIVE RecordedEarnedIn(_, _, _, _, _, _)
RecordedEarnedIn(order, i, earned, owned, pms, seconds) ==
  IF i > Len(order)
    THEN earned
    ELSE LET g == order[i]
             production == GetCurrentProduction(g, owned[g], pms[g]) * seconds
             r == GeneratorConfig(g).producesResourceId
         IN  RecordedEarnedIn(order, i + 1,
               IF r \in DOMAIN earned /\ production > 0
                 THEN [earned EXCEPT ![r] = @ + production]
                 ELSE earned,
               owned, pms, seconds)

\* a game left with any count of up to two of every generator and wheat
\* held up to its maximum
InitOrder ==
  /\ amount \in {am \in [Resources -> 0 .. MaxUnits] :
                   /\ am["gold"] \in ResourceInitialAmounts("gold")
                   /\ am["wheat"] \in {0, Unit, WheatMax * Unit}}
  /\ purchased \in [Generators -> OwnedCounts]
  /\ productionMultipliers = [g \in Generators |-> <<>>]
  /\ upgradePurchased = [u \in Upgrades |-> 0]
  /\ unlocked = [a \in Achievements |-> FALSE]
  /\ rewardCalls = [a \in Achievements |-> 0]
  /\ storage = {}
  /\ now = StartTime
  /\ lastTick = StartTime
  /\ lastSave = StartTime
  /\ tickInterval = Null
  /\ timers = {}
  /\ probe = Null
  /\ statistics = Null
  /\ last = Call("constructor", "", 0, TRUE)

NextOrder ==
  \/ \E d \in 1 .. MaxNow : AdvanceClock(d)
  \/ Start
  \/ Tick

SpecOrder == InitOrder /\ [][NextOrder]_vars

(***************************************************************************)
(* The running game played through the store: ticks, purchases of one or   *)
(* more units, manual clicks, load and reset in any interleaving.  The     *)
(* saves are those that the ticks make when an auto-save is due; the       *)
(* upgrade bought is the one that lists a cost twice.                      *)
(***************************************************************************)
NextPlayed ==
  \/ \E d \in 1 .. MaxNow : AdvanceClock(d)
  \/ Start
  \/ Tick
  \/ Load
  \/ Reset
  \/ \E g \in StoreGenerators, quantity \in Quantities : PurchaseGenerator(g, quantity)
  \/ PurchaseUpgrade("land")
  \/ HandleManualClick("wheat")

SpecPlayed == Init /\ [][NextPlayed]_vars

(***************************************************************************)
(* The game closed and opened again: the page constructs a new engine,     *)
(* which finds the record that an earlier engine has left in localStorage. *)
(***************************************************************************)
\* new GameEngine() and the game definition's registrations, at the time now
Construct ==
  /\ amount' \in {am \in [Resources -> 0 .. MaxUnits] :
                    \A r \in Resources : am[r] \in ResourceInitialAmounts(r)}
  /\ purchased' = [g \in Generators |-> 0]
  /\ productionMultipliers' = [g \in Generators |-> <<>>]
  /\ upgradePurchased' = [u \in Upgrades |-> 0]
  /\ unlocked' = [a \in Achievements |-> FALSE]
  /\ rewardCalls' = [a \in Achievements |-> 0]
  /\ lastTick' = now
  /\ lastSave' = now
  /\ tickInterval' = Null
  /\ timers' = {}
  /\ statistics' = {FreshStatistics(now) : stats \in statistics}
  /\ last' = Call("constructor", "", 0, TRUE)
  /\ UNCHANGED <<storage, now, probe>>

NextReopened ==
  \/ \E d \in 1 .. MaxRun : ClockMoves(d, MaxRun)
  \/ Construct
  \/ Load
  \/ Start
  \/ Tick
  \/ Save

SpecReopened == InitStatistics /\ [][NextReopened]_vars

(***************************************************************************)
(* The callers of the statistics' recording operations outside the engine: *)
(* the application clicks for wheat, and the store buys farmers (it        *)
(* forwards any quantity) and tools.                                       *)
(***************************************************************************)
\* the quantities the store is called with
StoreQuantities == {-1, 0, 1, 2}

NextStore ==
  \/ HandleManualClick("wheat")
  \/ \E quantity \in StoreQuantities : PurchaseGenerator("farmer", quantity)
  \/ PurchaseUpgrade("tools")

SpecStore == InitStatistics /\ [][NextStore]_vars

(***************************************************************************)
(* Records that this engine has not written.  localStorage is shared with  *)
(* whatever else runs on the page's origin and outlives a version of the   *)
(* game, so that load() can find a string that is no JSON, a record with a *)
(* field missing or of another kind, or a record of another set of ids.    *)
(***************************************************************************)
\* a record as the engine writes it, of a game that owns a farmer with tools
\* and a ghost
WrittenRecord ==
  SaveData([r \in Resources |-> IF r = "gold" THEN Unit ELSE 0],
           [g \in Generators |-> IF g = "mill" THEN 0 ELSE 1],
           [u \in Upgrades |-> IF u = "tools" THEN 1 ELSE 0],
           [a \in Achievements |-> a = "firstFarmer"],
           Null, StartTime)

\* a record with entries for ids that this game does not register (gems,
\* drone, warp, pioneer) and without entries for wheat, the mill, land, the
\* relic and firstWheat; it holds two ghosts
ForeignRecord ==
  [WrittenRecord EXCEPT
     !.resources = [id \in {"gold", "gems"} |-> Unit],
     !.generators = [id \in {"farmer", "ghost", "drone"} |->
                       IF id = "ghost" THEN 2 ELSE 1],
     !.upgrades = [id \in {"tools", "warp"} |-> 1],
     !.achievements = [id \in {"firstFarmer", "pioneer"} |-> TRUE]]

MalformedRecords ==
  {[WrittenRecord EXCEPT !.parsed = FALSE]}
    \cup {[WrittenRecord EXCEPT !.shape[f] = kind] :
            f \in ListFields, kind \in Kinds \ {"list"}}

StoredRecords == {WrittenRecord, ForeignRecord} \cup MalformedRecords

\* localStorage.setItem('idleGameSave', ...) by something other than save()
Store(d) ==
  /\ storage' = {d}
  /\ last' = Call("setItem", "", 0, TRUE)
  /\ UNCHANGED <<amount, purchased, productionMultipliers, upgradePurchased,
                 unlocked, rewardCalls, now, lastTick, lastSave, tickInterval, timers,
                 probe, statistics>>

NextRecords ==
  \/ \E d \in StoredRecords : Store(d)
  \/ Load
  \/ \E d \in 1 .. MaxNow : AdvanceClock(d)
  \/ Start
  \/ Tick
  \/ PurchaseGenerator("farmer", 1)

SpecRecords == Init /\ [][NextRecords]_vars

(***************************************************************************)
(* Two games on one origin: next to the engine of this game, the engine of *)
(* the space mining game saves and resets.  Every GameEngine passes the    *)
(* same literal key to localStorage, whatever game it was built for.       *)
(***************************************************************************)
Games == {"farming", "spaceMining"}

\* the key that the engine of a game passes to setItem, getItem and removeItem
StorageKey(game) == "idleGameSave"

\* the record that the space mining game's engine writes: its own ids
SpaceMiningRecord ==
  [WrittenRecord EXCEPT
     !.resources = [id \in {"minerals", "credits", "energy"} |-> Unit],
     !.generators = [id \in {"mining_drone", "solar_panel"} |-> 1],
     !.upgrades = [id \in {"improved_drill_bits"} |-> 1],
     !.achievements = [id \in {"first_minerals", "first_drone"} |-> TRUE]]

\* save() of the space mining game's engine
SaveOther ==
  /\ storage' = IF StorageKey("spaceMining") = StorageKey("farming")
                  THEN {[SpaceMiningRecord EXCEPT !.timestamp = now]}
                  ELSE storage
  /\ last' = Call("save", "spaceMining", 0, TRUE)
  /\ UNCHANGED <<amount, purchased, productionMultipliers, upgradePurchased,
                 unlocked, rewardCalls, now, lastTick, lastSave, tickInterval, timers,
                 probe, statistics>>

\* reset() of the space mining game's engine
ResetOther ==
  /\ storage' = IF StorageKey("spaceMining") = StorageKey("farming")
                  THEN {}
                  ELSE storage
  /\ last' = Call("reset", "spaceMining", 0, TRUE)
  /\ UNCHANGED <<amount, purchased, productionMultipliers, upgradePurchased,
                 unlocked, rewardCalls, now, lastTick, lastSave, tickInterval, timers,
                 probe, statistics>>

NextShared ==
  \/ \E d \in 1 .. MaxNow : AdvanceClock(d)
  \/ Start
  \/ Tick
  \/ Save
  \/ Load
  \/ Reset
  \/ PurchaseGenerator("farmer", 1)
  \/ SaveOther
  \/ ResetOther

SpecShared == Init /\ [][NextShared]_vars

(***************************************************************************)
(* A game left and loaded again: a freshly constructed game that owns one  *)
(* or two mills is saved, changed by the store's purchases, and loaded     *)
(* half a day, a day or several days later.                                *)
(***************************************************************************)
InitOffline ==
  /\ amount \in {am \in [Resources -> 0 .. MaxUnits] :
                   \A r \in Resources : am[r] \in ResourceInitialAmounts(r)}
  /\ purchased \in {owned \in [Generators -> OwnedCounts] :
                      owned["mill"] >= 1 /\ owned["farmer"] = 0 /\ owned["ghost"] = 0
                      /\ owned["baker"] = 0}
  /\ productionMultipliers = [g \in Generators |-> <<>>]
  /\ upgradePurchased = [u \in Upgrades |-> 0]
  /\ unlocked = [a \in Achievements |-> FALSE]
  /\ rewardCalls = [a \in Achievements |-> 0]
  /\ storage = {}
  /\ now = StartTime
  /\ lastTick = StartTime
  /\ lastSave = StartTime
  /\ tickInterval = Null
  /\ timers = {}
  /\ probe = Null
  /\ statistics = Null
  /\ last = Call("constructor", "", 0, TRUE)

NextOffline ==
  \/ \E h \in 1 .. 2 * MaxDays :
       ClockMoves(h * (MaxOfflineTime \div 2), MaxDays * MaxOfflineTime)
  \/ Save
  \/ Load
  \/ PurchaseGenerator("farmer", 1)
  \/ PurchaseUpgrade("tools")

SpecOffline == InitOffline /\ [][NextOffline]_vars

(***************************************************************************)
(* The wall clock set back while the game runs or while it is saved:       *)
(* Date.now() is not monotonic.                                            *)
(***************************************************************************)
\* the system clock set back by d seconds
ClockSetBack(d) ==
  /\ now - d * MsPerSecond >= StartTime
  /\ now' = now - d * MsPerSecond
  /\ last' = Call("clock", "", -d, TRUE)
  /\ UNCHANGED <<amount, purchased, productionMultipliers, upgradePurchased,
                 unlocked, rewardCalls, storage, lastTick, lastSave, tickInterval,
                 timers, probe, statistics>>

\* with a clock that goes back and forth the amounts grow without end: the
\* exploration keeps to amounts of at most MaxWhole whole resources
NextSkewed ==
  \/ \E d \in 1 .. MaxRun : ClockMoves(d, MaxRun)
  \/ \E d \in 1 .. MaxRun : ClockSetBack(d)
  \/ Start
  \/ Tick /\ \A r \in Resources : amount'[r] <= MaxUnits
  \/ Save
  \/ Load /\ \A r \in Resources : amount'[r] <= MaxUnits

SpecSkewed == InitOffline /\ [][NextSkewed]_vars

(***************************************************************************)
(* Properties.                                                             *)
(***************************************************************************)
\* baseAmount * scalingFactor^c + ... + baseAmount * scalingFactor^(c+n-1)
RECURSIVE SeriesSum(_, _, _)
SeriesSum(cost, c, n) ==
  IF n <= 0 THEN 0 ELSE CostAt(cost, c) + SeriesSum(cost, c + 1, n - 1)

\* the series of resource r's cost schedule(s) of generator g, from entry i on
RECURSIVE ScheduleSum(_, _, _, _, _)
ScheduleSum(g, r, c, n, i) ==
  LET costs == GeneratorConfig(g).costs
  IN  IF i > Len(costs)
        THEN 0
        ELSE (IF costs[i].resourceId = r THEN SeriesSum(costs[i], c, n) ELSE 0)
             + ScheduleSum(g, r, c, n, i + 1)

\* the sum of the amounts upgrade u lists for resource r, from entry i on
RECURSIVE ListedCost(_, _, _)
ListedCost(u, r, i) ==
  LET costs == UpgradeConfig(u).costs
  IN  IF i > Len(costs)
        THEN 0
        ELSE (IF costs[i].resourceId = r THEN costs[i].amount ELSE 0)
             + ListedCost(u, r, i + 1)

\* C1: a Generator.purchase that returns false leaves every resource amount
\* and every owned count as they were, whichever of its costs were covered.
C1_FailedPurchaseChangesNothing ==
  [][(last'.op = "Generator.purchase" /\ ~last'.ok)
       => (amount' = amount /\ purchased' = purchased)]_vars

\* a purchase of the mill has failed with its wheat cost covered and its gold
\* cost not
C1_Witness ==
  /\ last.op = "Generator.purchase" /\ ~last.ok
  /\ last.id = "mill" /\ last.arg = 1
  /\ amount["wheat"] >= 2 * Unit /\ amount["gold"] < Unit

\* C2: a Generator.purchase of n >= 1 units that returns true, from owned
\* count c, lowers each resource by the series baseAmount * scalingFactor^(c+i),
\* i = 0 .. n-1, of its cost schedule (by nothing when it has none) and raises
\* the owned count of that generator, and of no other, by n.
C2_PurchaseDeductsSeries ==
  [][(last'.op = "Generator.purchase" /\ last'.ok /\ last'.arg >= 1)
       => LET g == last'.id
              n == last'.arg
              c == purchased[g]
          IN  /\ purchased' = [purchased EXCEPT ![g] = c + n]
              /\ \A r \in Resources :
                   amount'[r] = amount[r] - ScheduleSum(g, r, c, n, 1)]_vars

\* two farmers (scaling factor 2) have been bought in one purchase
C2_Witness ==
  /\ last.op = "Generator.purchase" /\ last.ok
  /\ last.id = "farmer" /\ last.arg = 2 /\ purchased["farmer"] = 2

\* C3: every generator's owned count is >= 0 and, when the game definition
\* gives it a maximum purchase count (0 included), <= that maximum.
C3_OwnedCountWithinLimits ==
  \A g \in Generators :
    /\ purchased[g] >= 0
    /\ \A m \in GeneratorConfig(g).maxPurchases : purchased[g] <= m

\* C4: a resource configured with a maximum never holds more than it.
C4_AmountWithinMaximum ==
  \A r \in Resources : \A m \in ResourceConfig(r).maxAmount : amount[r] <= m

\* C5: a successful Upgrade.purchase lowers each resource by the sum of the
\* costs the upgrade lists for it, raises the purchased count by 1 and runs
\* the effect callback once.
C5_UpgradePurchaseDeductsAll ==
  [][(last'.op = "Upgrade.purchase" /\ last'.ok)
       => LET u == last'.id
          IN  /\ \A r \in Resources : amount[r] - amount'[r] = ListedCost(u, r, 1)
              /\ upgradePurchased' = [upgradePurchased EXCEPT ![u] = @ + 1]
              /\ last'.effects = [NoEffects EXCEPT ![u] = 1]]_vars

\* C6: an Upgrade.purchase that fails returns an empty cost list, changes no
\* resource amount, no purchased count and no multiplier list, and runs no
\* effect callback.
C6_FailedUpgradeChangesNothing ==
  [][(last'.op = "Upgrade.purchase" /\ ~last'.ok)
       => /\ last'.costs = <<>>
          /\ last'.effects = NoEffects
          /\ amount' = amount
          /\ upgradePurchased' = upgradePurchased
          /\ productionMultipliers' = productionMultipliers]_vars

\* a purchase of the tools upgrade has failed at its maximum with its cost covered
C6_Witness ==
  /\ last.op = "Upgrade.purchase" /\ ~last.ok /\ last.id = "tools"
  /\ upgradePurchased["tools"] = UpgradeMaxPurchases("tools")
  /\ amount["gold"] >= Unit

\* C7: every upgrade's purchased count is <= its maximum purchase count.
C7_UpgradeCountWithinMaximum ==
  \A u \in Upgrades : upgradePurchased[u] <= UpgradeMaxPurchases(u)

\* a load has restored two upgrades that stand at their maximum
C7_Witness ==
  /\ last.op = "load" /\ last.ok
  /\ upgradePurchased["land"] = UpgradeMaxPurchases("land")
  /\ upgradePurchased["tools"] = UpgradeMaxPurchases("tools")

\* C8: Resource.subtract(v) returns true exactly when amount >= v held before
\* the call; then the amount is lower by v, otherwise it is unchanged.
C8_SubtractIffAffordable ==
  [][last'.op = "Resource.subtract"
       => LET r == last'.id
              v == last'.arg
          IN  /\ last'.ok <=> amount[r] >= v
              /\ last'.ok => amount'[r] = amount[r] - v
              /\ ~last'.ok => amount'[r] = amount[r]]_vars

\* a subtract of the whole balance has succeeded
C8_Witness ==
  /\ last.op = "Resource.subtract" /\ last.ok
  /\ last.arg > 0 /\ amount[last.id] = 0

\* C9: while conditions only go from false to true, the reward callback of an
\* achievement has run once if it is unlocked and never if it is not; a check
\* returns true exactly when it finds the achievement locked and its
\* condition true, and it then unlocks it and runs the reward once; a check
\* of an unlocked achievement returns false and changes nothing.
C9_CheckUnlocksOnce ==
  /\ [](\A a \in Achievements : rewardCalls[a] = IF unlocked[a] THEN 1 ELSE 0)
  /\ [][\A a \in Achievements :
          /\ a \in last'.unlockedNow
               => /\ ~unlocked[a] /\ unlocked'[a]
                  /\ rewardCalls'[a] = rewardCalls[a] + 1
          /\ unlocked[a]
               => /\ a \notin last'.unlockedNow
                  /\ unlocked'[a]
                  /\ rewardCalls'[a] = rewardCalls[a]
          /\ (last'.op = "Achievement.check" /\ last'.id = a)
               => /\ last'.ok <=> (~unlocked[a] /\ Condition(a, amount, purchased))
                  /\ last'.ok <=> a \in last'.unlockedNow
                  /\ amount' = amount /\ purchased' = purchased]_vars

\* a check of an unlocked achievement, whose reward has run once, has returned false
C9_Witness ==
  /\ last.op = "Achievement.check" /\ ~last.ok
  /\ unlocked[last.id] /\ rewardCalls[last.id] = 1
  /\ Condition(last.id, amount, purchased)

\* C10 as stated: an unlocked flag that is true stays true in every step.
C10_UnlockedForever ==
  [][\A a \in Achievements : unlocked[a] => unlocked'[a]]_vars

\* C10, amended: an unlocked flag that is true turns false only in reset(),
\* which clears every flag, and in load(), which sets every flag to the value
\* the record holds; every other operation leaves it true.
C10_UnlockedUntilResetOrLoad ==
  [][/\ \A a \in Achievements :
          (unlocked[a] /\ ~unlocked'[a]) => last'.op \in {"reset", "load"}
     /\ last'.op = "reset" => \A a \in Achievements : ~unlocked'[a]
     /\ (last'.op = "load" /\ last'.ok)
          => \E d \in storage : unlocked' = d.achievements]_vars

\* a tick has left firstWheat unlocked although its condition no longer holds
C10_Witness ==
  /\ last.op = "tick"
  /\ unlocked["firstWheat"] /\ ~Condition("firstWheat", amount, purchased)

\* C11 as stated: the reward callback of an achievement runs at most once.
C11_RewardAtMostOnce ==
  \A a \in Achievements : rewardCalls[a] <= 1

\* C11, amended: the reward callback runs only in a step that finds the
\* achievement locked and unlocks it, so at most once for as long as the
\* flag is not cleared; the flag is cleared only by reset() and by load().
C11_RewardOncePerUnlock ==
  [][\A a \in Achievements :
       /\ rewardCalls'[a] # rewardCalls[a]
            => /\ ~unlocked[a] /\ unlocked'[a]
               /\ rewardCalls'[a] = rewardCalls[a] + 1
       /\ (a \in last'.unlockedNow /\ rewardCalls[a] < MaxCalls)
            => rewardCalls'[a] = rewardCalls[a] + 1
       /\ (unlocked[a] /\ ~unlocked'[a]) => last'.op \in {"reset", "load"}]_vars

\* a tick has run the reward of firstFarmer a second time, after a reset
C11_Witness ==
  /\ last.op = "tick" /\ "firstFarmer" \in last.unlockedNow
  /\ rewardCalls["firstFarmer"] = 2

\* C12 as stated: getMaxAffordable returns a quantity n that can be purchased
\* while n + 1 cannot.
C12_MaxAffordableIsLargest ==
  last.op = "getMaxAffordable"
    => /\ GeneratorCanPurchase(last.id, purchased[last.id], amount, last.arg)
       /\ ~GeneratorCanPurchase(last.id, purchased[last.id], amount, last.arg + 1)

\* C12, amended: getMaxAffordable returns the largest quantity n that can be
\* purchased among 0 .. ceiling, the ceiling being the room left under the
\* maximum purchase count or, without a maximum, 1000; n + 1 cannot be
\* purchased unless n is that ceiling of 1000.
C12_MaxAffordableUpToCeiling ==
  last.op = "getMaxAffordable"
    => LET g == last.id
           n == last.arg
           can(q) == GeneratorCanPurchase(g, purchased[g], amount, q)
       IN  /\ n >= 0 /\ can(n)
           /\ \A m \in GeneratorMaxPurchases(g) : n <= m - purchased[g] /\ ~can(n + 1)
           /\ GeneratorMaxPurchases(g) = Null
                => /\ n <= SentinelCeiling
                   /\ n < SentinelCeiling => ~can(n + 1)

\* asked of a game that can pay for two mills and no third, the answer is two
C12_Witness ==
  /\ last.op = "getMaxAffordable" /\ last.id = "mill" /\ last.arg = 2
  /\ amount["gold"] = 3 * Unit

\* what one multiplier makes of the running value v
StepOf(m, v) ==
  CASE ~MultiplierConfig(m).active -> v
    [] MultiplierConfig(m).active /\ MultiplierConfig(m).type = "additive"
         -> v + MultiplierConfig(m).value
    [] MultiplierConfig(m).active /\ MultiplierConfig(m).type = "multiplicative"
         -> v * MultiplierConfig(m).value

\* the value v taken through the list ms, the first attached multiplier first
RECURSIVE FoldLeft(_, _)
FoldLeft(ms, v) ==
  IF ms = <<>>
    THEN v
    ELSE StepOf(ms[Len(ms)], FoldLeft(SubSeq(ms, 1, Len(ms) - 1), v))

RECURSIVE RateInto(_, _)
RateInto(r, i) ==
  IF i > Len(GeneratorOrder)
    THEN 0
    ELSE LET g == GeneratorOrder[i]
         IN  (IF GeneratorConfig(g).producesResourceId = r
                THEN GetCurrentProduction(g, purchased[g], productionMultipliers[g])
                ELSE 0)
             + RateInto(r, i + 1)

\* C14: with constant production p into a registered resource without a
\* maximum, what the engine has deposited there, and what it has recorded as
\* earned, is p times the time from each start() to the last tick of that
\* running period, summed over the running periods, whenever and however
\* often the ticks fired; the time spent stopped adds nothing.
C14_ProgressFollowsRunningTime ==
  \A p \in probe : \A r \in Resources :
    ResourceMaxAmount(r) = Null
      => /\ p.deposited[r] * MsPerSecond = RateInto(r, 1) * p.ran
         /\ p.earned[r] * MsPerSecond = RateInto(r, 1) * p.ran
         /\ amount[r] = p.deposited[r]

\* a tick has fired when the engine had run for two of the four seconds passed
C14_Witness ==
  /\ last.op = "tick" /\ now = StartTime + 4 * MsPerSecond
  /\ purchased["mill"] = 2
  /\ \E p \in probe : p.ran = 2 * MsPerSecond /\ p.deposited["gold"] = 4 * Unit

\* the engine's state apart from the record of the last call
engine == <<amount, purchased, productionMultipliers, upgradePurchased, unlocked,
            rewardCalls, storage, now, lastTick, lastSave, tickInterval, timers>>

\* C15: the engine is stopped (no handle held, no timer registered) or running
\* (one handle held, that one timer registered), so at most one timer is
\* registered; start() while running and stop() while stopped change nothing.
C15_StartStopIdempotent ==
  /\ [](/\ Cardinality(timers) <= 1
        /\ timers = tickInterval)
  /\ [][/\ (last'.op = "start" /\ tickInterval # Null) => UNCHANGED engine
        /\ (last'.op = "stop" /\ tickInterval = Null) => UNCHANGED engine
        /\ last'.op = "start" => tickInterval' # Null
        /\ last'.op = "stop" => tickInterval' = Null]_vars

\* start() has been called on an engine that had been running for a second
C15_Witness ==
  /\ last.op = "start" /\ tickInterval # Null
  /\ lastTick < now /\ lastSave < now

\* C16: while the engine is stopped no tick runs, so that between stop() and
\* the next start() no amount, flag, reward count or persisted record changes
\* because of the timer; stop() itself clears the timer and leaves the
\* persisted record, like everything but the handle, as it was.
C16_NoTickWhileStopped ==
  [][/\ last'.op = "tick" => tickInterval # Null
     /\ last'.op = "stop"
          => /\ timers' = {} /\ tickInterval' = Null
             /\ UNCHANGED <<amount, purchased, productionMultipliers, upgradePurchased,
                            unlocked, rewardCalls, storage, now, lastTick, lastSave,
                            probe, statistics>>]_vars

\* stop() has been called on a running engine that was due to produce and to
\* save at its next tick
C16_Witness ==
  /\ last.op = "stop" /\ tickInterval = Null
  /\ purchased["farmer"] >= 1
  /\ now - lastTick >= MsPerSecond /\ AutoSaveDue(lastSave)
  /\ storage = {}

\* C17: a tick at time now saves (the record then holds the state after the
\* tick, stamped now) and sets lastSave to now exactly when
\* now - lastSave >= autoSaveInterval, and otherwise leaves record and lastSave
\* alone; lastSave changes only in such a tick and in a start() that finds the
\* engine stopped, which sets it to now: while running, an auto-save comes no
\* earlier than autoSaveInterval after start() or after the auto-save before.
C17_AutoSaveWhenDue ==
  [][/\ (last'.op = "tick" /\ now - lastSave >= AutoSaveInterval)
          => /\ lastSave' = now
             /\ storage' = {SaveData(amount', purchased', upgradePurchased',
                                     unlocked', statistics', now)}
     /\ (last'.op = "tick" /\ now - lastSave < AutoSaveInterval)
          => /\ lastSave' = lastSave
             /\ storage' = storage
     /\ lastSave' # lastSave
          => \/ last'.op = "start" /\ tickInterval = Null /\ lastSave' = now
             \/ /\ last'.op = "tick"
                /\ lastSave' = now
                /\ lastSave' - lastSave >= AutoSaveInterval]_vars

\* the tick two intervals after the engine was constructed has auto-saved
\* what the mills had produced
C17_Witness ==
  /\ last.op = "tick" /\ lastSave = now
  /\ now = StartTime + 2 * AutoSaveInterval
  /\ \E d \in storage : d.timestamp = now /\ d.resources["gold"] > 0

\* C18: a load() that follows a save() at once succeeds and leaves every
\* resource amount, every generator's and upgrade's purchased count and every
\* achievement's unlocked flag as they were before the save.
C18_SaveLoadRoundTrip ==
  [][(last.op = "save" /\ last'.op = "load")
       => /\ last'.ok
          /\ amount' = amount
          /\ purchased' = purchased
          /\ upgradePurchased' = upgradePurchased
          /\ unlocked' = unlocked]_vars

\* a game with a farmer, wheat, an upgrade and both achievements unlocked has
\* been loaded in the moment it was saved
C18_Witness ==
  /\ last.op = "load" /\ last.ok
  /\ storage = {SaveData(amount, purchased, upgradePurchased, unlocked,
                          statistics, now)}
  /\ purchased["farmer"] >= 1 /\ amount["wheat"] > 0
  /\ upgradePurchased["tools"] = 1
  /\ \A a \in Achievements : unlocked[a]

\* n times the multiplier m
RECURSIVE Repeated(_, _)
Repeated(m, n) == IF n <= 0 THEN <<>> ELSE <<m>> \o Repeated(m, n - 1)

\* C19: a load() that succeeds calls the effect of every upgrade as often as
\* the purchased count it has restored for it (the tools' effect attaches
\* betterTools to the farmer once per call), and computes the offline
\* progress afterwards, with the multiplier lists the effects have left.
C19_EffectsReplayedBeforeOffline ==
  [][(last'.op = "load" /\ last'.ok)
       => \E d \in storage :
            /\ upgradePurchased' = d.upgrades
            /\ last'.effects = upgradePurchased'
            /\ productionMultipliers' =
                 [productionMultipliers EXCEPT
                    !["farmer"] = @ \o Repeated("betterTools", upgradePurchased'["tools"])]
            /\ amount' = ProcessGenerators(1, d.resources, purchased',
                           productionMultipliers',
                           Min((now - d.timestamp) \div MsPerSecond, MaxOfflineTime))]_vars

\* a load a second after the save has replayed the tools' effect and credited
\* the farmer's wheat at the rate the replayed effect gives
C19_Witness ==
  /\ last.op = "load" /\ last.ok /\ last.effects["tools"] = 1
  /\ purchased["farmer"] = 1
  /\ \E d \in storage : now - d.timestamp = MsPerSecond /\ d.resources["wheat"] = 0
  /\ productionMultipliers["farmer"] = <<"betterTools", "betterTools">>
  /\ amount["wheat"] = Min(4 * Unit, WheatMax * Unit)

\* C20: a load() of a record saved t seconds before takes, for every
\* registered resource, the production per second of the generators that
\* produce it (with the counts the load has restored and the multipliers
\* the replayed effects have left) times min(t, 86400): it records that as
\* earned and, where it is positive, adds it to the restored amount through
\* the resource's add, which stops at the resource's maximum.  A record two
\* days old therefore yields what a record one day old yields.
C20_OfflineProgressCapped ==
  [][(last'.op = "load" /\ last'.ok)
       => \E d \in storage :
            LET t == (now - d.timestamp) \div MsPerSecond
                capped == IF t < 24 * 60 * 60 THEN t ELSE 24 * 60 * 60
            IN  \A r \in Resources :
                  LET gain == RateInto(r, 1)' * capped
                      sum == d.resources[r] + gain
                  IN  /\ last'.earned[r] = gain
                      /\ amount'[r] =
                           IF gain <= 0 THEN d.resources[r]
                           ELSE IF ResourceMaxAmount(r) = Null THEN sum
                           ELSE IF \E max \in ResourceMaxAmount(r) : sum > max
                             THEN CHOOSE max \in ResourceMaxAmount(r) : TRUE
                           ELSE sum]_vars

\* a game saved with two mills has been loaded two days later, and has been
\* credited with, and has recorded as earned, one day of the two mills' gold
C20_Witness ==
  /\ last.op = "load" /\ last.ok
  /\ purchased["mill"] = 2
  /\ \E d \in storage :
       /\ now - d.timestamp = 2 * MaxOfflineTime * MsPerSecond
       /\ amount["gold"] = d.resources["gold"] + 2 * Unit * MaxOfflineTime
  /\ last.earned["gold"] = 2 * Unit * MaxOfflineTime

\* C21: reset() leaves every resource's amount at 0, every generator's and
\* upgrade's purchased count at 0, every achievement locked, every total and
\* counter of the statistics at 0 with the session starting now, and no
\* persisted record; a load() called directly afterwards returns false.
C21_ResetClearsEverything ==
  [][/\ last'.op = "reset"
          => /\ \A r \in Resources : amount'[r] = 0
             /\ \A g \in Generators : purchased'[g] = 0
             /\ \A u \in Upgrades : upgradePurchased'[u] = 0
             /\ \A a \in Achievements : ~unlocked'[a]
             /\ statistics' # Null
             /\ \A stats \in statistics' :
                  /\ \A r \in Resources : /\ stats.totalResourcesEarned[r] = 0
                                           /\ stats.totalResourcesSpent[r] = 0
                  /\ \A g \in Generators : stats.totalGeneratorsPurchased[g] = 0
                  /\ \A u \in Upgrades : stats.totalUpgradesPurchased[u] = 0
                  /\ stats.achievementsUnlocked = 0
                  /\ stats.totalClicks = 0
                  /\ stats.timePlayed = 0
                  /\ stats.sessionStartTime = now
             /\ storage' = {}
     /\ (last.op = "reset" /\ last'.op = "load") => ~last'.ok]_vars

\* a game that had bought tools and a farmer, had unlocked an achievement and
\* had been saved a second after it began has been reset, and the load()
\* after that has failed
C21_Witness ==
  /\ last.op = "load" /\ ~last.ok
  /\ now > StartTime
  /\ productionMultipliers["farmer"] # <<>>
  /\ rewardCalls["firstFarmer"] >= 1
  /\ lastSave > StartTime
  /\ \A g \in Generators : purchased[g] = 0
  /\ \A stats \in statistics : stats.sessionStartTime = now /\ stats.timePlayed = 0

\* C22: a load() that finds no record returns false and changes nothing: no
\* amount, no purchased count, no flag, no multiplier list, no statistic; no
\* effect and no reward callback is called.
C22_LoadWithoutRecordChangesNothing ==
  [][(last'.op = "load" /\ storage = {})
       => /\ ~last'.ok
          /\ last'.effects = NoEffects
          /\ UNCHANGED <<amount, purchased, productionMultipliers, upgradePurchased,
                         unlocked, rewardCalls, statistics, storage>>]_vars

\* load() has found no record in a game that owns a farmer with tools, has
\* unlocked an achievement and has recorded all of that
C22_Witness ==
  /\ last.op = "load" /\ ~last.ok /\ storage = {}
  /\ purchased["farmer"] = 1
  /\ productionMultipliers["farmer"] = <<"betterTools">>
  /\ unlocked["firstFarmer"]
  /\ \E stats \in statistics :
       /\ stats.totalGeneratorsPurchased["farmer"] = 1
       /\ stats.achievementsUnlocked >= 1

\* C23: a load() of a stored string that does not parse, or of a record in
\* which resources, generators, upgrades or achievements is missing or is
\* not a list, returns false (and returns: the call ends with a value).
C23_MalformedRecordFails ==
  [][(/\ last'.op = "load"
      /\ \E d \in storage :
           ~d.parsed \/ \E f \in ListFields : d.shape[f] # "list")
       => ~last'.ok]_vars

\* amount a of resource r after a deposit of gain through add, if gain > 0
Deposited(a, r, gain) ==
  IF gain <= 0 THEN a
  ELSE IF ResourceMaxAmount(r) = Null THEN a + gain
  ELSE IF \E max \in ResourceMaxAmount(r) : a + gain > max
    THEN CHOOSE max \in ResourceMaxAmount(r) : TRUE
  ELSE a + gain

\* the entry of field f of record d for id, or else what the engine holds
EntryOr(d, f, id, held) == IF id \in DOMAIN d[f] THEN d[f][id] ELSE held

\* C24: a generator whose producesResourceId is not registered (the ghost)
\* deposits nothing and records nothing as earned, in a tick and in offline
\* progress, while the other generators deposit and record their production
\* and every achievement is checked; a load() of a record of lists restores
\* the registered objects its entries name, skips the other entries, leaves
\* the objects without an entry as they are, and returns true.
C24_MissingReferenceIsSkipped ==
  [][/\ last'.op = "tick"
          => LET deltaTime == (now - lastTick) \div MsPerSecond
             IN  /\ \A r \in Resources :
                      /\ amount'[r] = Deposited(amount[r], r, RateInto(r, 1) * deltaTime)
                      /\ last'.earned[r] = RateInto(r, 1) * deltaTime
                 /\ DOMAIN amount' = Resources /\ DOMAIN last'.earned = Resources
                 /\ \A a \in Achievements :
                      unlocked'[a] <=> (unlocked[a] \/ Condition(a, amount', purchased))
     /\ \A d \in storage :
          (/\ last'.op = "load"
           /\ d.parsed /\ \A f \in ListFields : d.shape[f] = "list")
            => LET seconds == Min((now - d.timestamp) \div MsPerSecond, MaxOfflineTime)
               IN  /\ last'.ok
                   /\ \A g \in Generators :
                        purchased'[g] = EntryOr(d, "generators", g, purchased[g])
                   /\ \A u \in Upgrades :
                        upgradePurchased'[u] = EntryOr(d, "upgrades", u, upgradePurchased[u])
                   /\ \A a \in Achievements :
                        unlocked'[a] = EntryOr(d, "achievements", a, unlocked[a])
                   /\ \A r \in Resources :
                        /\ amount'[r] = Deposited(EntryOr(d, "resources", r, amount[r]), r,
                                                  RateInto(r, 1)' * seconds)
                        /\ last'.earned[r] = RateInto(r, 1)' * seconds
                   /\ DOMAIN amount' = Resources /\ DOMAIN last'.earned = Resources]_vars

\* a game has loaded the record of other ids, owns its two ghosts, and a tick
\* a second later has deposited and recorded the farmer's wheat and unlocked
\* firstWheat
C24_Witness ==
  /\ last.op = "tick"
  /\ purchased["ghost"] = 2 /\ purchased["farmer"] >= 1
  /\ last.earned["wheat"] > 0 /\ amount["wheat"] > 0
  /\ "firstWheat" \in last.unlockedNow

\* C25: a step in which the store, the application or the tick calls the
\* statistics' recording operations leaves every total per id and every
\* counter at least as large as it was.
C25_TotalsNeverDecrease ==
  [][last'.op \in {"Generator.purchase", "Upgrade.purchase", "handleManualClick", "tick"}
       => \A before \in statistics, after \in statistics' :
            /\ \A r \in Resources :
                 /\ after.totalResourcesEarned[r] >= before.totalResourcesEarned[r]
                 /\ after.totalResourcesSpent[r] >= before.totalResourcesSpent[r]
            /\ \A g \in Generators :
                 after.totalGeneratorsPurchased[g] >= before.totalGeneratorsPurchased[g]
            /\ \A u \in Upgrades :
                 after.totalUpgradesPurchased[u] >= before.totalUpgradesPurchased[u]
            /\ after.achievementsUnlocked >= before.achievementsUnlocked
            /\ after.totalClicks >= before.totalClicks]_vars

\* C26: in a session that began at t0, with a clock that never runs
\* backwards, the calls of updateTimePlayed have added up to the time from
\* t0 to the last call, however many there were; a call at the instant of
\* the call before adds nothing, and timePlayed never decreases.
C26_TimePlayedTelescopes ==
  /\ [](\A stats \in statistics :
          stats.timePlayed = stats.sessionStartTime - StartTime)
  /\ [][\A before \in statistics, after \in statistics' :
          /\ after.timePlayed >= before.timePlayed
          /\ (last'.op = "save" \/ storage' # storage)
               => /\ after.timePlayed = now - StartTime
                  /\ before.sessionStartTime = now
                       => after.timePlayed = before.timePlayed]_vars

\* a save three seconds into a session in which an earlier tick had
\* auto-saved: timePlayed is three seconds
C26_Witness ==
  /\ last.op = "save"
  /\ now = StartTime + 3 * MsPerSecond
  /\ amount["wheat"] > 0 /\ lastSave > StartTime /\ lastSave < now
  /\ \E stats \in statistics : stats.timePlayed = 3 * MsPerSecond

\* C27: a save() or a reset() of the other game's engine leaves the record
\* that this game's engine has saved, and that its load() reads, as it was.
C27_RecordsKeptApart ==
  [][(/\ last'.op \in {"save", "reset"} /\ last'.id = "spaceMining"
      /\ \E d \in storage : DOMAIN d.resources = Resources)
       => storage' = storage]_vars


\* C28: after a purchase made through the store succeeds, the statistics' total
\* spent of every resource has grown by the amount the purchase deducted from
\* that resource.
C28_PurchaseCountsAsSpent ==
  [][(last'.op \in {"Generator.purchase", "Upgrade.purchase"} /\ last'.ok)
       => \A stats \in statistics : \A after \in statistics' : \A r \in Resources :
            after.totalResourcesSpent[r]
              = stats.totalResourcesSpent[r] + (amount[r] - amount'[r])]_vars


\* C29: a tick checks the achievements on the amounts its production has left
\* and saves after both: every achievement that was locked and whose condition
\* holds of the amounts after the tick is unlocked by that tick and counted in
\* the statistics, and the record an auto-save of that tick writes holds the
\* amounts after production, the new unlocks and the statistics counting them.
C29_ProductionThenChecksThenSave ==
  [][last'.op = "tick"
       => LET newly == {a \in Achievements :
                          ~unlocked[a] /\ Condition(a, amount', purchased)}
          IN  /\ \A a \in newly : unlocked'[a] /\ a \in last'.unlockedNow
              /\ \A stats \in statistics : \A after \in statistics' :
                    after.achievementsUnlocked
                      = stats.achievementsUnlocked + Cardinality(newly)
              /\ AutoSaveDue(lastSave)
                   => /\ storage' # {}
                      /\ \A d \in storage' :
                            /\ d.timestamp = now
                            /\ d.resources = amount'
                            /\ \A a \in newly : d.achievements[a]
                            /\ d.statistics = statistics']_vars

\* a tick whose production has brought wheat from none to one whole unit or
\* more has unlocked firstWheat, and has saved
C29_Witness ==
  /\ last.op = "tick"
  /\ last.earned["wheat"] >= Unit
  /\ amount["wheat"] = last.earned["wheat"]
  /\ amount["wheat"] < WheatMax * Unit
  /\ "firstWheat" \in last.unlockedNow
  /\ \E stats \in statistics : stats.achievementsUnlocked >= 1
  /\ \E d \in storage : d.timestamp = now /\ d.achievements["firstWheat"]


\* C30: a tick leaves every resource amount, the capped ones included, and
\* passes every earned total as the production loop run over the generators
\* in any order of registration does.
C30_OrderOfGeneratorsIsImmaterial ==
  [][last'.op = "tick"
       => LET deltaTime == (now - lastTick) \div MsPerSecond
              none == [r \in Resources |-> 0]
          IN  \A order \in Orders :
                /\ amount' = ProcessGeneratorsIn(order, 1, amount, purchased,
                                                 productionMultipliers, deltaTime)
                /\ last'.earned = RecordedEarnedIn(order, 1, none, purchased,
                                                   productionMultipliers, deltaTime)]_vars

\* a tick in which the farmers and the bakers have produced different amounts
\* of wheat, which together pass its maximum, and the mills have produced gold
C30_Witness ==
  /\ last.op = "tick"
  /\ purchased["farmer"] >= 1 /\ purchased["baker"] >= 1
  /\ last.earned["wheat"] > WheatMax * Unit
  /\ amount["wheat"] = WheatMax * Unit
  /\ purchased["mill"] >= 1 /\ last.earned["gold"] >= Unit


\* n consecutive purchase(resources, 1) calls from owned count owned and amounts
\* am: the amounts and the count they leave, and whether all of them succeeded
RECURSIVE PurchaseEach(_, _, _, _)
PurchaseEach(g, owned, am, n) ==
  IF n <= 0
    THEN [amount |-> am, purchased |-> owned, ok |-> TRUE]
    ELSE LET one == GeneratorPurchase(g, owned, am, 1)
             rest == PurchaseEach(g, one.purchased, one.amount, n - 1)
         IN  [rest EXCEPT !.ok = one.ok /\ rest.ok]

\* C31: for n >= 1, purchase(resources, n) succeeds exactly when n consecutive
\* purchases of one unit from the same state all succeed, and then leaves the
\* amounts and the owned count that those n purchases leave.
C31_BulkPurchaseIsRepeatedPurchase ==
  [][(last'.op = "Generator.purchase" /\ last'.arg >= 1)
       => LET g == last'.id
              each == PurchaseEach(g, purchased[g], amount, last'.arg)
          IN  /\ last'.ok <=> each.ok
              /\ last'.ok => /\ amount' = each.amount
                             /\ purchased'[g] = each.purchased]_vars

\* two mills, each paid in wheat and in gold, have been bought in one purchase
\* that has taken all the wheat
C31_Witness ==
  /\ last.op = "Generator.purchase" /\ last.ok
  /\ last.id = "mill" /\ last.arg = 2
  /\ purchased["mill"] >= 2 /\ amount["wheat"] = 0


\* C32: whatever ticks, purchases of one or more units, upgrade purchases,
\* manual clicks, saves, loads and resets have been interleaved, no resource
\* amount is negative.
C32_AmountsNeverNegative == \A r \in Resources : amount[r] >= 0

\* land, which lists the wheat cost twice, has been bought with one unit of
\* wheat held: the second subtract has found nothing left to take
C32_Witness ==
  /\ last.op = "Upgrade.purchase" /\ last.id = "land" /\ last.ok
  /\ amount["wheat"] = 0
  /\ upgradePurchased["land"] = 1 /\ purchased["farmer"] >= 1
  /\ storage # {}


\* C33: a load() that directly follows a save() of the same engine leaves every
\* generator's list of attached multipliers and its current production as they
\* were, and a load() that directly follows a load() leaves every generator's
\* current production as it was.
C33_LoadKeepsMultipliers ==
  [][(last'.op = "load" /\ last'.ok)
       => /\ last.op = "save"
               => /\ productionMultipliers' = productionMultipliers
                  /\ \A g \in Generators :
                        GetCurrentProduction(g, purchased'[g], productionMultipliers'[g])
                          = GetCurrentProduction(g, purchased[g], productionMultipliers[g])
          /\ (last.op = "load" /\ last.ok)
               => \A g \in Generators :
                    GetCurrentProduction(g, purchased'[g], productionMultipliers'[g])
                      = GetCurrentProduction(g, purchased[g], productionMultipliers[g])]_vars


\* C34: right after reset() no generator has a multiplier attached, so that any
\* owned count yields the production it yields in a freshly constructed game.
C34_ResetDetachesMultipliers ==
  last.op = "reset"
    => \A g \in Generators :
         /\ productionMultipliers[g] = <<>>
         /\ \A n \in OwnedCounts :
              GetCurrentProduction(g, n, productionMultipliers[g])
                = GetCurrentProduction(g, n, <<>>)


\* C35: a generator of which none is owned has current production 0 whatever
\* multipliers are attached to it, and a second of production by generators of
\* which none is owned changes no amount.
C35_NoneOwnedProducesNothing ==
  LET none == [g \in Generators |-> 0]
  IN  /\ \A g \in Generators :
           GetCurrentProduction(g, none[g], productionMultipliers[g]) = 0
      /\ ProcessGenerators(1, amount, none, productionMultipliers, 1) = amount


\* C36: the statistics' count of unlocked achievements is the number of
\* achievements whose unlocked flag is set, whatever ticks, saves, loads and
\* resets have happened.
C36_UnlockCountMatchesFlags ==
  \A stats \in statistics :
    stats.achievementsUnlocked = Cardinality({a \in Achievements : unlocked[a]})

\* a load has brought back a record in which one of the two achievements is
\* unlocked
C36_Witness ==
  /\ last.op = "load" /\ last.ok
  /\ unlocked["firstFarmer"] /\ ~unlocked["firstWheat"]
  /\ \E stats \in statistics : stats.achievementsUnlocked = 1


\* C37: a purchaseUpgrade of the store whose Upgrade.purchase has not succeeded
\* records nothing in the statistics, and in every state the statistics'
\* purchase total of each upgrade is that upgrade's purchased count.
C37_OnlyBoughtUpgradesAreRecorded ==
  /\ [](\A stats \in statistics : \A u \in Upgrades :
          stats.totalUpgradesPurchased[u] = upgradePurchased[u])
  /\ [][(last'.op = "Upgrade.purchase" /\ ~last'.ok)
          => statistics' = statistics]_vars


\* C38: where an engine constructed in this instant has loaded a record saved
\* earlier, a save() in the same instant adds nothing to timePlayed: the time
\* between the record's save and the load is not time played.
C38_ClosedTimeIsNotPlayed ==
  [][(/\ last.op = "load" /\ last.ok
      /\ tickInterval = Null /\ lastTick = now
      /\ \E d \in storage : d.timestamp < now
      /\ last'.op = "save")
       => \A before \in statistics : \A after \in statistics' :
            after.timePlayed = before.timePlayed]_vars


\* C39: a tick that finds the clock at or before the time of the last tick, and
\* a load that finds the record's timestamp at or after the clock, add nothing
\* to and take nothing from any amount, and pass nothing as earned: the tick
\* leaves the amounts, the load leaves the amounts of the record.
C39_NoProductionWithoutElapsedTime ==
  [][/\ (last'.op = "tick" /\ now <= lastTick)
          => /\ amount' = amount
             /\ last'.earned = [r \in Resources |-> 0]
     /\ (last'.op = "load" /\ last'.ok)
          => \A d \in storage :
               d.timestamp >= now
                 => /\ amount' = d.resources
                    /\ last'.earned = [r \in Resources |-> 0]]_vars

\* a load has found a record whose timestamp lies after the clock, with mills
\* owned that would have produced
C39_Witness ==
  /\ last.op = "load" /\ last.ok
  /\ purchased["mill"] >= 1
  /\ \E d \in storage : d.timestamp > now /\ d.resources = amount

============================================================================
